---- MODULE Spec2Model ----
(***************************************************************************)
(* State-machine model of the coral coroutine library.                     *)
(*                                                                         *)
(*   SpecMutex   - coral::mutex / unique_lock (include/coral/mutex.hpp)     *)
(*   SpecNursery - nursery_task and its children (include/coral/nursery.hpp)*)
(*   SpecEvent   - single_event (include/coral/single_event.hpp)            *)
(*   SpecComb    - when_all / when_any / when_all_complete                  *)
(*                                                                         *)
(* Every atomic read-modify-write of the source is one step of the model;  *)
(* plain loads, stores and the steps between them are separate steps, so   *)
(* that TLC enumerates the interleavings of threads.                       *)
(***************************************************************************)
EXTENDS Integers, Sequences, FiniteSets, TLC

(***************************************************************************)
(* Bounds of the model.                                                    *)
(***************************************************************************)
\* number of coroutines contending for the mutex (K)
MaxCoros == 3
\* lock / increment / unlock rounds of each coroutine (C)
Rounds == 2

\* children a nursery body may start
MaxChildren == 3

\* adapter tasks of a combinator
MaxTasks == 3
\* number of direct try_unlock calls on the bare mutex
MaxUnlocks == 3
MaxSpurious == 2
MaxStoppers == 3
MaxAwaiters == 3
MaxTokens == 2
MaxDepth == 3
MaxLen == 3
MaxLockers == 3
MaxSlots == 2

Coros == 1..MaxCoros
Children == 1..MaxChildren
\* task indices are zero based, as in the source
TaskIds == 0..(MaxTasks - 1)
\* the values a task may produce
Payloads == {7, 8}
Stoppers == 1..MaxStoppers
Awaiters == 1..MaxAwaiters
Tokens == 1..MaxTokens
Lockers == 1..MaxLockers
Slots == 1..MaxSlots

VARIABLES
    \* ---- mutex ----------------------------------------------------------
    list_,        \* mutex::list_ : the head word
    next,         \* awaiter_node::next of the awaiter of each coroutine
    lockNext,     \* unique_lock::next_ of the lock of each coroutine
    lockMutex,    \* unique_lock::mutex_ != nullptr
    last,         \* local `last` of try_unlock
    mpc,          \* position of each coroutine
    round,        \* rounds finished by each coroutine
    shared,       \* the shared counter of the test
    tmp,          \* the value read by the non atomic increment
    sched,        \* "sync" (sync_scheduler) or "pool" (thread pool scheduler)
    callee,       \* sync_scheduler: the coroutine resumed inline by schedule()
    mbad,         \* a handle was resumed that was not suspended on the mutex
    \* ---- nursery --------------------------------------------------------
    child_counter_, \* nursery_task_promise_base::child_counter_
    npc,          \* position of the nursery body
    child,        \* position of each child (spawn_adapter coroutine)
    childThrew,   \* the awaitable of the child threw (unhandled_exception)
    nresult,      \* nursery_task_promise::result_
    nresumed,     \* how often continuation_ (the awaiter) was resumed
    nout,         \* what the awaiter got from await_resume
    \* ---- single_event ---------------------------------------------------
    state_,       \* single_event::state_ : the set of flag bits
    value_,       \* single_event::value_ : the payload slot
    waiting_,     \* single_event::waiting_ holds the awaiter's handle
    spc,          \* position of the sender
    skind,        \* the payload the sender is depositing
    sthrown,      \* a set_value / set_exception threw single_event_error
    apc,          \* position of the awaiter
    aout,         \* what the awaiter got from await_resume
    eresumes,     \* how often waiting_.resume() was called
    again,        \* how a get_sender() on an event that has a sender ended
    \* ---- when_all / when_any / when_all_complete ------------------------
    comb,         \* "all", "any" or "complete"
    form,         \* "tuple" (variadic) or "range"
    hasStop,      \* stop_source_ != nullptr
    rich,         \* CORAL_EXPECTED and the tasks return std::expected
    ntasks,       \* number of adapter tasks
    counter_,     \* awaiter::counter_
    first_failed, \* awaiter::first_failed_task_index_
    first_completed, \* awaiter::first_completed_task_index_
    stopReq,      \* stop_source_->stop_requested()
    ppc,          \* position of the awaiting parent
    pidx,         \* index of the task await_suspend is at
    tpc,          \* position of each adapter task
    tres,         \* adapter_promise::result_ : which alternative it holds
    tvalue,       \* adapter_promise::result_ : the payload
    order,        \* history: the tasks in the order of their on_ready
    presumed,     \* how often continuation_ (the parent) was resumed
    pout,         \* what the parent got from await_resume
    \* ---- the bare mutex, try_lock / try_unlock called directly -----------
    rpc,          \* position of each thread inside try_lock / try_unlock
    lret,         \* what try_lock returned to the thread
    uret,         \* what try_unlock returned to the thread
    retried,      \* the compare_exchange_weak of the call failed at least once
    unlocks,      \* number of try_unlock calls made
    \* ---- sync_wait ------------------------------------------------------
    signaled_,    \* sync_event::signaled_
    mutex_,       \* sync_event::mutex_ : "free", or who holds it
    wpc,          \* position of the thread that called sync_wait
    kpc,          \* position of the wrapped adapter task
    kthread,      \* the thread the task runs on
    kresult,      \* what the adapter promise stored
    wout,         \* what sync_wait returned or threw
    spurious,     \* number of spurious wake-ups so far
    \* ---- when_stopped --------------------------------------------------
    stopped,      \* the stop state of the token: stop was requested
    callback_,    \* stop_token_awaiter::callback_
    race_flag_,   \* stop_token_awaiter::race_flag_
    hpc,          \* position of the coroutine awaiting when_stopped
    qpc,          \* position of each thread calling request_stop
    hcont,        \* how often the awaiting coroutine went on
    how,          \* the ways it went on: "ready", "declined", "callback"
    \* ---- when_signal ---------------------------------------------------
    reinterant_flag, \* interrupt_awaiter::reinterant_flag
    interrupt_flag, \* interrupt_state::flag : whose my_flag it points to
    my_flag,      \* the my_flag of each run thread
    handler,      \* the handler installed for the signal
    gtok,         \* the stop token each awaiter was made with
    tstop,        \* per stop token: stop was requested
    gpc,          \* position of each coroutine awaiting when_signal
    jpc,          \* position of each detached thread in interrupt_state::run
    \* ---- task chain ----------------------------------------------------
    klen,         \* number of nested tasks
    cpc,          \* position of each coroutine of the chain
    continuation_, \* task_promise_base::continuation_ of each task
    result_,      \* task_promise::result_ of each task
    got,          \* what co_await on the child gave each coroutine
    resumes,      \* how often each coroutine was resumed by its child
    ran,          \* the body of the task began to execute
    awaited,      \* the task was awaited
    ext,          \* the body has suspended on something else already
    current,      \* the coroutine executing on the thread
    depth,        \* nested resume() frames on the call stack
    \* ---- generator -----------------------------------------------------
    yseq,         \* the sequence the producer yields
    ythrow,       \* the producer ends with an exception
    ypos,         \* number of co_yield the producer has executed
    ydone,        \* the producer is at its final suspend: coro_.done()
    yvalue,       \* generator_promise::value_
    yexc,         \* generator_promise::exception_ is set
    ipc,          \* position of the consumer loop
    yout,         \* the elements the consumer has read
    \* ---- async_generator -----------------------------------------------
    aseq,         \* the sequence the producer yields
    athrow,       \* the producer ends with an exception
    bpos,         \* number of co_yield the producer has executed
    bpc,          \* position of the producer coroutine
    bvalue,       \* async_generator_promise::value_
    bexc,         \* async_generator_promise::exception_ is set
    bext,         \* the producer has suspended on something else already
    consumer_,    \* async_generator_promise::consumer_ is set
    xpc,          \* position of the consumer
    calls,        \* number of next() calls begun
    bres,         \* what each finished next() call gave
    threwAt,      \* the next() call during which the producer threw
    \* ---- unique_lock objects --------------------------------------------
    ulist,        \* mutex::list_ of the mutex the lockers share
    unode,        \* awaiter_node::next of the awaiter of each locker
    ualive,       \* the unique_lock variable holds a constructed object
    umutex_,      \* unique_lock::mutex_ != nullptr
    unext_,       \* unique_lock::next_
    upc,          \* position of each locker
    urel,         \* releases made by the unique_lock objects of each locker
    ubad,         \* std::abort(), or a handle scheduled that was not waiting
    \* ---- mutex, history ------------------------------------------------
    late,         \* late[c]: the coroutines queued after c, while c is waiting
    passed        \* passed[c][d]: how often d, queued after c, became owner before c

mvars == <<list_, next, lockNext, lockMutex, last, mpc, round, shared, tmp,
           sched, callee, mbad>>

nvars == <<child_counter_, npc, child, childThrew, nresult, nresumed, nout>>

evars == <<state_, value_, waiting_, spc, skind, sthrown, apc, aout, eresumes,
           again>>

wvars == <<comb, form, hasStop, rich, ntasks, counter_, first_failed,
           first_completed, stopReq, ppc, pidx, tpc, tres, tvalue, order,
           presumed, pout>>

rvars == <<rpc, lret, uret, retried, unlocks>>

svars == <<signaled_, mutex_, wpc, kpc, kthread, kresult, wout, spurious>>

tvars == <<stopped, callback_, race_flag_, hpc, qpc, hcont, how>>

gvars == <<reinterant_flag, interrupt_flag, my_flag, handler, gtok, tstop, gpc, jpc>>

kvars == <<klen, cpc, continuation_, result_, got, resumes, ran, awaited, ext,
           current, depth>>

yvars == <<yseq, ythrow, ypos, ydone, yvalue, yexc, ipc, yout>>

bvars == <<aseq, athrow, bpos, bpc, bvalue, bexc, bext, consumer_, xpc, calls,
           bres, threwAt>>

uvars == <<ulist, unode, ualive, umutex_, unext_, upc, urel, ubad>>

hvars == <<late, passed>>

vars == <<mvars, nvars, evars, wvars, rvars, svars, tvars, gvars, kvars, yvars, bvars, uvars, hvars>>

\* a step of one component leaves the other components alone
\* the history of the mutex after a step.  While c is waiting, late[c]
\* holds the coroutines that queued themselves after c did and have not
\* become the owner since
LateNext ==
    [c \in Coros |->
        IF mpc'[c] # "waiting" \/ mpc[c] # "waiting" THEN {}
        ELSE (late[c] \cup {d \in Coros : mpc[d] # "waiting" /\ mpc'[d] = "waiting"})
                 \ {d \in Coros : mpc[d] # "owner" /\ mpc'[d] = "owner"}]

\* passed[c][d] goes up when the step makes d the owner while c is waiting
\* and d queued itself after c; the counts of a coroutine that is not
\* waiting are zero
PassedNext ==
    [c \in Coros |-> [d \in Coros |->
        IF mpc'[c] # "waiting" \/ mpc[c] # "waiting" THEN 0
        ELSE IF mpc[d] # "owner" /\ mpc'[d] = "owner" /\ d \in late[c]
               THEN passed[c][d] + 1
        ELSE passed[c][d]]]

MutexOnly ==
    /\ UNCHANGED <<nvars, evars, wvars, rvars, svars, tvars, gvars, kvars, yvars, bvars, uvars>>
    /\ late' = LateNext
    /\ passed' = PassedNext
NurseryOnly == UNCHANGED <<mvars, evars, wvars, rvars, svars, tvars, gvars, kvars, yvars, bvars, uvars, hvars>>
EventOnly == UNCHANGED <<mvars, nvars, wvars, rvars, svars, tvars, gvars, kvars, yvars, bvars, uvars, hvars>>
CombOnly == UNCHANGED <<mvars, nvars, evars, rvars, svars, tvars, gvars, kvars, yvars, bvars, uvars, hvars>>
ApiOnly == UNCHANGED <<lockNext, lockMutex, mpc, round, shared, tmp, sched,
                       callee, mbad, nvars, evars, wvars, svars, tvars, gvars, kvars, yvars, bvars, uvars, hvars>>

SyncOnly == UNCHANGED <<mvars, nvars, evars, wvars, rvars, tvars, gvars, kvars, yvars, bvars, uvars, hvars>>

StopOnly == UNCHANGED <<mvars, nvars, evars, wvars, rvars, svars, gvars, kvars, yvars, bvars, uvars, hvars>>

SignalOnly == UNCHANGED <<mvars, nvars, evars, wvars, rvars, svars, tvars, kvars, yvars, bvars, uvars, hvars>>

TaskOnly == UNCHANGED <<mvars, nvars, evars, wvars, rvars, svars, tvars, gvars, yvars, bvars, uvars, hvars>>

GenOnly == UNCHANGED <<mvars, nvars, evars, wvars, rvars, svars, tvars, gvars, kvars, bvars, uvars, hvars>>

AGenOnly == UNCHANGED <<mvars, nvars, evars, wvars, rvars, svars, tvars, gvars, kvars, yvars, uvars, hvars>>

LockOnly == UNCHANGED <<mvars, nvars, evars, wvars, rvars, svars, tvars, gvars, kvars, yvars, bvars, hvars>>

(***************************************************************************)
(* coral::mutex                                                            *)
(***************************************************************************)
\* mutex::unlocked (nullptr) and mutex::locked (address 1)
unlocked == 0
locked == 1
\* the address of the awaiter node of coroutine c
NodeOf(c) == c + locked
CoroOf(n) == n - locked
\* an unlock that never takes next_ for a waiter node
MUT_IsNode(n) == FALSE
IsNode(n) == (n # unlocked) /\ (n # locked)

MutexFields ==
    /\ list_ = unlocked
    /\ next = [c \in Coros |-> unlocked]
    /\ lockNext = [c \in Coros |-> unlocked]
    /\ lockMutex = [c \in Coros |-> FALSE]
    /\ last = [c \in Coros |-> unlocked]
    /\ mpc = [c \in Coros |-> "start"]
    /\ round = [c \in Coros |-> 0]
    /\ shared = 0
    /\ tmp = [c \in Coros |-> 0]
    /\ callee = [c \in Coros |-> 0]
    /\ mbad = FALSE

\* nobody is waiting
InitPassed ==
    /\ late = [c \in Coros |-> {}]
    /\ passed = [c \in Coros |-> [d \in Coros |-> 0]]

InitMutex == MutexFields /\ sched \in {"sync", "pool"}
\* the mutex of a program that does not use it
IdleMutex == MutexFields /\ sched = "sync"

\* A coroutine t has suspended (or finished): with the sync_scheduler the
\* thread that resumed it inline returns from schedule().
Returned(f, t) ==
    [x \in Coros |-> IF callee[x] = t /\ f[x] = "blocked" THEN "unlock_end" ELSE f[x]]
Uncall(t) == [x \in Coros |-> IF callee[x] = t THEN 0 ELSE callee[x]]

\* the pool thread resumes the coroutine after `co_await scheduler`;
\* await_suspend stores the handle; try_lock: cur->next = list_.load()
M_TryLockLoad(c) ==
    /\ mpc[c] = "start"
    /\ round[c] < Rounds
    /\ next' = [next EXCEPT ![c] = list_]
    /\ mpc' = [mpc EXCEPT ![c] = "cas"]
    /\ UNCHANGED <<list_, lockNext, lockMutex, last, round, shared, tmp,
                   sched, callee, mbad>>
    /\ MutexOnly

\* a try_lock that always pushes its node
MUT_TryLockNew(c, seen) == NodeOf(c)

\* the value try_lock stores into the head word when it saw `seen`
TryLockNew(c, seen) == IF seen = unlocked THEN locked ELSE NodeOf(c)

\* try_lock: one compare_exchange_weak; on success await_suspend returns
\* !(next_copy == unlocked); on failure cur->next is reloaded
M_TryLockCas(c) ==
    /\ mpc[c] = "cas"
    /\ IF list_ = next[c]
       THEN /\ list_' = TryLockNew(c, next[c])
            /\ next' = next
            /\ IF next[c] = unlocked
               THEN /\ mpc' = [mpc EXCEPT ![c] = "owner"]
                    /\ callee' = callee
               ELSE /\ mpc' = Returned([mpc EXCEPT ![c] = "waiting"], c)
                    /\ callee' = Uncall(c)
       ELSE /\ next' = [next EXCEPT ![c] = list_]
            /\ UNCHANGED <<list_, mpc, callee>>
    /\ UNCHANGED <<lockNext, lockMutex, last, round, shared, tmp, sched, mbad>>
    /\ MutexOnly

\* awaiter::await_resume builds unique_lock{*mutex_, next, scheduler}; the
\* awaiter, a temporary of the co_await expression, is destroyed.  Then
\* shared += 1, the read
M_AwaitResume(c) ==
    /\ mpc[c] = "owner"
    /\ lockNext' = [lockNext EXCEPT ![c] = next[c]]
    /\ lockMutex' = [lockMutex EXCEPT ![c] = TRUE]
    /\ next' = [next EXCEPT ![c] = unlocked]
    /\ tmp' = [tmp EXCEPT ![c] = shared]
    /\ mpc' = [mpc EXCEPT ![c] = "write"]
    /\ UNCHANGED <<list_, last, round, shared, sched, callee, mbad>>
    /\ MutexOnly

\* shared += 1, the write; the lock goes out of scope next
M_Write(c) ==
    /\ mpc[c] = "write"
    /\ shared' = tmp[c] + 1
    /\ tmp' = [tmp EXCEPT ![c] = 0]
    /\ mpc' = [mpc EXCEPT ![c] = "unlock"]
    /\ UNCHANGED <<list_, next, lockNext, lockMutex, last, round,
                   sched, callee, mbad>>
    /\ MutexOnly

\* scheduler_.schedule(h) called by c for the handle of coroutine t
Schedule(c, t) ==
    /\ mbad' = (mbad \/ mpc[t] # "waiting")
    /\ IF sched = "sync"
       THEN /\ mpc' = [mpc EXCEPT ![t] = "owner", ![c] = "blocked"]
            /\ callee' = [callee EXCEPT ![c] = t]
       ELSE /\ mpc' = [mpc EXCEPT ![t] = "owner", ![c] = "unlock_end"]
            /\ callee' = callee

\* an unlock that resets the head word although it hands the lock to the
\* successor recorded in next_
MUT_M_Unlock(c) ==
    /\ mpc[c] = "unlock"
    /\ IF IsNode(lockNext[c])
       THEN /\ Schedule(c, CoroOf(lockNext[c]))
            /\ last' = last
            /\ list_' = locked
       ELSE IF lockMutex[c]
            THEN /\ last' = [last EXCEPT ![c] = list_]
                 /\ mpc' = [mpc EXCEPT ![c] = "tu_cas"]
                 /\ UNCHANGED <<list_, callee, mbad>>
            ELSE /\ mpc' = [mpc EXCEPT ![c] = "unlock_end"]
                 /\ UNCHANGED <<list_, last, callee, mbad>>
    /\ UNCHANGED <<next, lockNext, lockMutex, round, shared, tmp, sched>>
    /\ MutexOnly

\* unique_lock::unlock, the branch taken: the successor recorded in next_ is
\* scheduled, or try_unlock starts with last = list_.load()
M_Unlock(c) ==
    /\ mpc[c] = "unlock"
    /\ IF IsNode(lockNext[c])
       THEN /\ Schedule(c, CoroOf(lockNext[c]))
            /\ last' = last
       ELSE IF lockMutex[c]
            THEN /\ last' = [last EXCEPT ![c] = list_]
                 /\ mpc' = [mpc EXCEPT ![c] = "tu_cas"]
                 /\ UNCHANGED <<callee, mbad>>
            ELSE /\ mpc' = [mpc EXCEPT ![c] = "unlock_end"]
                 /\ UNCHANGED <<last, callee, mbad>>
    /\ UNCHANGED <<list_, next, lockNext, lockMutex, round, shared, tmp, sched>>
    /\ MutexOnly

\* a try_unlock that never frees the mutex
MUT_TryUnlockKeeps(seen) == locked

\* a try_unlock that frees the mutex although waiters are queued
MUT_TryUnlockNew(seen) == unlocked

\* a try_unlock that takes the waiters and forgets them: it says that
\* nobody waits
MUT_TryUnlockForgets(seen) == IF seen = unlocked THEN locked ELSE unlocked

\* the value try_unlock stores into the head word when it saw `seen`
TryUnlockNew(seen) == IF seen = locked THEN unlocked ELSE locked

\* try_unlock: one compare_exchange_weak, then the abort test
M_TryUnlockCas(c) ==
    /\ mpc[c] = "tu_cas"
    /\ IF list_ = last[c]
       THEN /\ list_' = TryUnlockNew(last[c])
            /\ last' = last
            /\ mpc' = [mpc EXCEPT ![c] = IF last[c] = unlocked THEN "aborted" ELSE "tu_ret"]
       ELSE /\ last' = [last EXCEPT ![c] = list_]
            /\ UNCHANGED <<list_, mpc>>
    /\ UNCHANGED <<next, lockNext, lockMutex, round, shared, tmp, sched, callee, mbad>>
    /\ MutexOnly

\* unique_lock::unlock after try_unlock returned
M_UnlockHandOff(c) ==
    /\ mpc[c] = "tu_ret"
    /\ IF last[c] # locked
       THEN Schedule(c, CoroOf(last[c]))
       ELSE /\ mpc' = [mpc EXCEPT ![c] = "unlock_end"]
            /\ UNCHANGED <<callee, mbad>>
    /\ UNCHANGED <<list_, next, lockNext, lockMutex, last, round, shared, tmp, sched>>
    /\ MutexOnly

\* unique_lock::unlock: next_ = locked; mutex_ = nullptr; the round ends and
\* the coroutine suspends in `co_await scheduler` or finishes
M_UnlockEnd(c) ==
    /\ mpc[c] = "unlock_end"
    /\ lockNext' = [lockNext EXCEPT ![c] = locked]
    /\ lockMutex' = [lockMutex EXCEPT ![c] = FALSE]
    /\ last' = [last EXCEPT ![c] = unlocked]
    /\ round' = [round EXCEPT ![c] = @ + 1]
    /\ mpc' = Returned([mpc EXCEPT ![c] = IF round[c] + 1 = Rounds THEN "done" ELSE "start"], c)
    /\ callee' = Uncall(c)
    /\ UNCHANGED <<list_, next, shared, tmp, sched, mbad>>
    /\ MutexOnly

NextMutex ==
    \E c \in Coros :
        \/ M_TryLockLoad(c)
        \/ M_TryLockCas(c)
        \/ M_AwaitResume(c)
        \/ M_Write(c)
        \/ M_Unlock(c)
        \/ M_TryUnlockCas(c)
        \/ M_UnlockHandOff(c)
        \/ M_UnlockEnd(c)

(***************************************************************************)
(* coral::nursery, nursery_task                                            *)
(***************************************************************************)
InitNursery ==
    /\ child_counter_ = 0
    /\ npc = "created"
    /\ child = [k \in Children |-> "unstarted"]
    /\ childThrew = [k \in Children |-> FALSE]
    /\ nresult = "none"
    /\ nresumed = 0
    /\ nout = "pending"

\* a child_started that does not count the child
MUT_ChildStarted(n) == n

\* nursery_task_promise_base::child_started
ChildStarted(n) == n + 1

\* nursery_task_promise_base::child_completed: the counter after fetch_sub
ChildCompletedCounter(n) == n - 1

\* a child_completed that compares the fetched value with 1
MUT_ChildCompletedResumes(n) == (n = 1)

\* a child_completed that also returns continuation_ to the call before
\* the last
MUT_ChildCompletedEarly(n) == (n <= 1)

\* nursery_task_promise_base::child_completed: continuation_ is returned
ChildCompletedResumes(n) == (n = 0)

\* co_await nursery_task: task_awaiter::await_suspend stores the continuation
\* and transfers into the body
N_Await ==
    /\ npc = "created"
    /\ npc' = "running"
    /\ UNCHANGED <<child_counter_, child, childThrew, nresult, nresumed, nout>>
    /\ NurseryOnly

\* a start that resumes the child without having counted it
MUT_N_StartCount(k) ==
    /\ npc = "running"
    /\ child[k] = "unstarted"
    /\ \A j \in Children : j < k => child[j] # "unstarted"
    /\ child' = [child EXCEPT ![k] = "counted"]
    /\ npc' = "in_start"
    /\ UNCHANGED <<child_counter_, childThrew, nresult, nresumed, nout>>
    /\ NurseryOnly

\* nursery::start -> spawn_promise::start: child_started()
N_StartCount(k) ==
    /\ npc = "running"
    /\ child[k] = "unstarted"
    /\ \A j \in Children : j < k => child[j] # "unstarted"
    /\ child_counter_' = ChildStarted(child_counter_)
    /\ child' = [child EXCEPT ![k] = "counted"]
    /\ npc' = "in_start"
    /\ UNCHANGED <<childThrew, nresult, nresumed, nout>>
    /\ NurseryOnly

\* spawn_promise::start: handle.resume(), the child runs inside start()
N_StartResume(k) ==
    /\ npc = "in_start"
    /\ child[k] = "counted"
    /\ child' = [child EXCEPT ![k] = "inline"]
    /\ UNCHANGED <<child_counter_, npc, childThrew, nresult, nresumed, nout>>
    /\ NurseryOnly

\* the awaitable of the child suspends: start() returns to the body
N_ChildSuspend(k) ==
    /\ child[k] = "inline"
    /\ child' = [child EXCEPT ![k] = "suspended"]
    /\ npc' = "running"
    /\ UNCHANGED <<child_counter_, childThrew, nresult, nresumed, nout>>
    /\ NurseryOnly

\* a child whose unhandled_exception stores the exception in the nursery
\* promise
MUT_N_ChildFinish(k, threw) ==
    /\ child[k] \in {"inline", "suspended"}
    /\ child' = [child EXCEPT ![k] = "done"]
    /\ childThrew' = [childThrew EXCEPT ![k] = threw]
    /\ child_counter_' = ChildCompletedCounter(child_counter_)
    /\ nresumed' = IF ChildCompletedResumes(child_counter_) THEN nresumed + 1 ELSE nresumed
    /\ npc' = IF child[k] = "inline" THEN "running" ELSE npc
    /\ nresult' = IF threw THEN "exception" ELSE nresult
    /\ UNCHANGED nout
    /\ NurseryOnly

\* the child ends (co_return or unhandled_exception, which drops the
\* exception); spawn_promise::final_suspend: finish().resume()
N_ChildFinish(k, threw) ==
    /\ child[k] \in {"inline", "suspended"}
    /\ child' = [child EXCEPT ![k] = "done"]
    /\ childThrew' = [childThrew EXCEPT ![k] = threw]
    /\ child_counter_' = ChildCompletedCounter(child_counter_)
    /\ nresumed' = IF ChildCompletedResumes(child_counter_) THEN nresumed + 1 ELSE nresumed
    /\ npc' = IF child[k] = "inline" THEN "running" ELSE npc
    /\ UNCHANGED <<nresult, nout>>
    /\ NurseryOnly

\* a body whose final awaiter does not call child_completed
MUT_N_BodyFinish(r) ==
    /\ npc = "running"
    /\ nresult' = r
    /\ npc' = "final"
    /\ UNCHANGED <<child_counter_, nresumed, child, childThrew, nout>>
    /\ NurseryOnly

\* the body ends: return_value / unhandled_exception store result_, then
\* final_awaiter::await_suspend calls child_completed()
N_BodyFinish(r) ==
    /\ npc = "running"
    /\ nresult' = r
    /\ npc' = "final"
    /\ child_counter_' = ChildCompletedCounter(child_counter_)
    /\ nresumed' = IF ChildCompletedResumes(child_counter_) THEN nresumed + 1 ELSE nresumed
    /\ UNCHANGED <<child, childThrew, nout>>
    /\ NurseryOnly

\* the resumed awaiter: task_awaiter::await_resume -> promise.result()
N_AwaitResume ==
    /\ nresumed > 0
    /\ nout = "pending"
    /\ nout' = nresult
    /\ UNCHANGED <<child_counter_, npc, child, childThrew, nresult, nresumed>>
    /\ NurseryOnly

NextNursery ==
    \/ N_Await
    \/ \E k \in Children : N_StartCount(k)
    \/ \E k \in Children : N_StartResume(k)
    \/ \E k \in Children : N_ChildSuspend(k)
    \/ \E k \in Children, threw \in BOOLEAN : N_ChildFinish(k, threw)
    \/ \E r \in {"value", "exception"} : N_BodyFinish(r)
    \/ N_AwaitResume

(***************************************************************************)
(* coral::single_event                                                     *)
(***************************************************************************)
\* enum state_t
has_sender == "has_sender"
has_value == "has_value"
has_awaiter == "has_awaiter"

InitEvent ==
    /\ state_ = {}
    /\ value_ = "empty"
    /\ waiting_ = FALSE
    /\ spc = "none"
    /\ skind = "none"
    /\ sthrown = FALSE
    /\ apc = "init"
    /\ aout = "pending"
    /\ eresumes = 0
    /\ again = "none"

\* awaiter::is_ready
is_ready(flag) == (has_value \in flag) \/ (has_sender \notin flag)

\* get_sender() -> sender::attach -> set_sender.  The sender is obtained
\* before the event is awaited.
E_GetSender ==
    /\ again # "terminated"
    /\ spc = "none"
    /\ apc = "init"
    /\ state_' = state_ \cup {has_sender}
    /\ spc' = "attached"
    /\ UNCHANGED <<value_, waiting_, skind, sthrown, apc, aout, eresumes>>
    /\ UNCHANGED again
    /\ EventOnly

\* sender::sender(single_event*) is declared noexcept
SenderCtorNoexcept == TRUE

\* an exception that leaves a noexcept function calls std::terminate
Throwing(isNoexcept) == IF isNoexcept THEN "terminated" ELSE "thrown"

\* get_sender() on an event whose has_sender bit is set: set_sender's
\* fetch_or leaves the flags as they are and throws single_event_error
\* inside the sender constructor
E_GetSenderAgain ==
    /\ again = "none"
    /\ has_sender \in state_
    /\ state_' = state_ \cup {has_sender}
    /\ again' = Throwing(SenderCtorNoexcept)
    /\ UNCHANGED <<value_, waiting_, spc, skind, sthrown, apc, aout, eresumes>>
    /\ EventOnly

\* a set that publishes has_value before the payload is written
MUT_E_SetBegin(kind) ==
    /\ again # "terminated"
    /\ spc = "attached"
    /\ value_' = "writing"
    /\ state_' = state_ \cup {has_value}
    /\ skind' = kind
    /\ spc' = "emplace"
    /\ UNCHANGED <<waiting_, sthrown, apc, aout, eresumes>>
    /\ UNCHANGED again
    /\ EventOnly

\* sender::set_value / set_exception: event_ is exchanged for nullptr and
\* single_event::set_value / set_exception starts to emplace the payload
E_SetBegin(kind) ==
    /\ again # "terminated"
    /\ spc = "attached"
    /\ value_' = "writing"
    /\ skind' = kind
    /\ spc' = "emplace"
    /\ UNCHANGED <<state_, waiting_, sthrown, apc, aout, eresumes>>
    /\ UNCHANGED again
    /\ EventOnly

\* the emplace of the payload is complete
E_SetEmplaced ==
    /\ again # "terminated"
    /\ spc \in {"emplace", "rel_emplace"}
    /\ value_' = skind
    /\ spc' = IF spc = "emplace" THEN "emplaced" ELSE "rel_emplaced"
    /\ UNCHANGED <<state_, waiting_, skind, sthrown, apc, aout, eresumes>>
    /\ UNCHANGED again
    /\ EventOnly

\* on_result_set: fetch_or(has_value), then waiting_.resume() if has_awaiter
E_OnResultSet ==
    /\ again # "terminated"
    /\ spc \in {"emplaced", "rel_emplaced"}
    /\ state_' = state_ \cup {has_value}
    /\ IF has_awaiter \in state_
       THEN /\ eresumes' = eresumes + 1
            /\ apc' = IF apc = "suspended" THEN "resumed" ELSE "bad_resume"
       ELSE UNCHANGED <<eresumes, apc>>
    /\ spc' = IF spc = "emplaced" THEN "set" ELSE "gone"
    /\ UNCHANGED <<value_, waiting_, skind, sthrown, aout>>
    /\ UNCHANGED again
    /\ EventOnly

\* a further set that deposits its payload again
MUT_E_SetAgain ==
    /\ again # "terminated"
    /\ spc = "set"
    /\ sthrown' = TRUE
    /\ value_' = "writing"
    /\ UNCHANGED <<state_, waiting_, spc, skind, apc, aout, eresumes>>
    /\ UNCHANGED again
    /\ EventOnly

\* a further set_value / set_exception on the sender: event_ is nullptr
E_SetAgain ==
    /\ again # "terminated"
    /\ spc = "set"
    /\ sthrown' = TRUE
    /\ UNCHANGED <<state_, value_, waiting_, spc, skind, apc, aout, eresumes>>
    /\ UNCHANGED again
    /\ EventOnly

\* a release_sender that clears has_sender and never looks at has_awaiter
MUT_E_Drop ==
    /\ again # "terminated"
    /\ spc = "attached"
    /\ state_' = state_ \ {has_sender}
    /\ spc' = "gone"
    /\ UNCHANGED <<value_, skind, waiting_, sthrown, apc, aout, eresumes>>
    /\ UNCHANGED again
    /\ EventOnly

\* ~sender -> release -> release_sender: fetch_and(~has_sender); with an
\* awaiter and no value set_exception("sender deleted") starts
E_Drop ==
    /\ again # "terminated"
    /\ spc = "attached"
    /\ state_' = state_ \ {has_sender}
    /\ IF has_value \in state_
       THEN /\ spc' = "gone"
            /\ UNCHANGED <<value_, skind>>
       ELSE IF has_awaiter \in state_
            THEN /\ spc' = "rel_emplace"
                 /\ value_' = "writing"
                 /\ skind' = "sender_deleted"
            ELSE /\ spc' = "gone"
                 /\ UNCHANGED <<value_, skind>>
    /\ UNCHANGED <<waiting_, sthrown, apc, aout, eresumes>>
    /\ UNCHANGED again
    /\ EventOnly

\* a destructor that releases the sender although it has set a payload
MUT_E_DropAfterSet ==
    /\ again # "terminated"
    /\ spc = "set"
    /\ spc' = "gone"
    /\ state_' = state_ \ {has_sender}
    /\ UNCHANGED <<value_, waiting_, skind, sthrown, apc, aout, eresumes>>
    /\ UNCHANGED again
    /\ EventOnly

\* ~sender after a set: event_ is nullptr, release() does nothing
E_DropAfterSet ==
    /\ again # "terminated"
    /\ spc = "set"
    /\ spc' = "gone"
    /\ UNCHANGED <<state_, value_, waiting_, skind, sthrown, apc, aout, eresumes>>
    /\ UNCHANGED again
    /\ EventOnly

\* awaiter::await_ready
E_AwaitReady ==
    /\ again # "terminated"
    /\ apc = "init"
    /\ apc' = IF is_ready(state_) THEN "resume" ELSE "store"
    /\ UNCHANGED <<state_, value_, waiting_, spc, skind, sthrown, aout, eresumes>>
    /\ UNCHANGED again
    /\ EventOnly

\* awaiter::await_suspend: event->waiting_ = h
E_StoreWaiting ==
    /\ again # "terminated"
    /\ apc = "store"
    /\ waiting_' = TRUE
    /\ apc' = "fetch_or"
    /\ UNCHANGED <<state_, value_, spc, skind, sthrown, aout, eresumes>>
    /\ UNCHANGED again
    /\ EventOnly

\* an await_suspend that suspends whatever the flags were
MUT_E_AwaitSuspend ==
    /\ again # "terminated"
    /\ apc = "fetch_or"
    /\ state_' = state_ \cup {has_awaiter}
    /\ apc' = "suspended"
    /\ UNCHANGED <<value_, waiting_, spc, skind, sthrown, aout, eresumes>>
    /\ UNCHANGED again
    /\ EventOnly

\* awaiter::await_suspend: fetch_or(has_awaiter); return !is_ready(flag)
E_AwaitSuspend ==
    /\ again # "terminated"
    /\ apc = "fetch_or"
    /\ state_' = state_ \cup {has_awaiter}
    /\ apc' = IF is_ready(state_) THEN "resume" ELSE "suspended"
    /\ UNCHANGED <<value_, waiting_, spc, skind, sthrown, aout, eresumes>>
    /\ UNCHANGED again
    /\ EventOnly

\* what awaiter::await_resume yields for the flags and the payload slot it
\* reads; "torn" is a read of a slot that is empty or being written
AwaitResumeResult(flag, slot) ==
    IF has_sender \notin flag THEN "no_sender"
    ELSE IF slot \in {"exception", "sender_deleted", "value"} THEN slot
    ELSE "torn"

\* awaiter::await_resume
E_AwaitResume ==
    /\ again # "terminated"
    /\ apc \in {"resume", "resumed"}
    /\ aout' = AwaitResumeResult(state_, value_)
    /\ apc' = "done"
    /\ UNCHANGED <<state_, value_, waiting_, spc, skind, sthrown, eresumes>>
    /\ UNCHANGED again
    /\ EventOnly

NextEvent ==
    \/ E_GetSender
    \/ E_GetSenderAgain
    \/ \E kind \in {"value", "exception"} : E_SetBegin(kind)
    \/ E_SetEmplaced
    \/ E_OnResultSet
    \/ E_SetAgain
    \/ E_Drop
    \/ E_DropAfterSet
    \/ E_AwaitReady
    \/ E_StoreWaiting
    \/ E_AwaitSuspend
    \/ E_AwaitResume

(***************************************************************************)
(* when_all, when_any, when_all_complete                                   *)
(***************************************************************************)
Tasks == 0..(ntasks - 1)

\* the combinator awaitable after construction: every adapter task created
\* (suspended at its initial suspend), counter_ and the index words at N
InitComb ==
    /\ comb \in {"all", "any", "complete"}
    /\ form \in {"tuple", "range"}
    /\ hasStop \in BOOLEAN
    /\ rich \in BOOLEAN
    /\ comb = "complete" => (~hasStop /\ ~rich)
    /\ ntasks \in 0..MaxTasks
    /\ form = "tuple" => ntasks >= 1
    /\ counter_ = ntasks
    /\ first_failed = ntasks
    /\ first_completed = ntasks
    /\ stopReq = FALSE
    /\ ppc = "init"
    /\ pidx = 0
    /\ tpc = [i \in TaskIds |-> "created"]
    /\ tres = [i \in TaskIds |-> "none"]
    /\ tvalue = [i \in TaskIds |-> 0]
    /\ order = <<>>
    /\ presumed = 0
    /\ pout = [kind |-> "pending", idx |-> 0, vals |-> <<>>]

\* a combinator of a program that does not use one
IdleComb ==
    /\ InitComb
    /\ comb = "all" /\ form = "tuple" /\ ~hasStop /\ ~rich /\ ntasks = 1

\* what a task may end with: a value, an exception, or (rich errors) an
\* expected holding an error
Outcomes == IF rich THEN {"value", "error", "exception"} ELSE {"value", "exception"}

\* adapter_promise::get_final_awaiter: success
Success(r) == r = "value"

\* an await_ready that always suspends
MUT_P_AwaitReady ==
    /\ ppc = "init"
    /\ ppc' = "loop"
    /\ UNCHANGED <<comb, form, hasStop, rich, ntasks, counter_, first_failed,
                   first_completed, stopReq, pidx, tpc, tres, tvalue, order,
                   presumed, pout>>
    /\ CombOnly

\* await_ready: the range forms are ready when tasks_ is empty
P_AwaitReady ==
    /\ ppc = "init"
    /\ ppc' = IF form = "range" /\ ntasks = 0 THEN "resume" ELSE "loop"
    /\ UNCHANGED <<comb, form, hasStop, rich, ntasks, counter_, first_failed,
                   first_completed, stopReq, pidx, tpc, tres, tvalue, order,
                   presumed, pout>>
    /\ CombOnly

\* await_suspend: tasks_[i].start(on_ready, i) for i < N - 1; when_all and
\* when_any test the index word next, when_all_complete goes on
P_Start ==
    /\ ppc = "loop"
    /\ pidx < ntasks - 1
    /\ tpc' = [tpc EXCEPT ![pidx] = "running"]
    /\ IF comb = "complete"
       THEN /\ pidx' = pidx + 1
            /\ ppc' = ppc
       ELSE /\ pidx' = pidx
            /\ ppc' = "check"
    /\ UNCHANGED <<comb, form, hasStop, rich, ntasks, counter_, first_failed,
                   first_completed, stopReq, tres, tvalue, order, presumed, pout>>
    /\ CombOnly

\* a short-circuit that tests first_failed_task_index_ in when_any too
MUT_ShortCircuitWord == first_failed

\* the index word the short-circuit of await_suspend loads
ShortCircuitWord == IF comb = "all" THEN first_failed ELSE first_completed

\* a short-circuit test that skips the rest whatever the index word holds
MUT_ShortCircuitAlways(word, i) == TRUE

\* a short-circuit test that misses the failure of task i itself
MUT_ShortCircuit(word, i) == word < i

\* the short-circuit test after start(i)
ShortCircuit(word, i) == word <= i

\* await_suspend: the test after start(i)
P_Check ==
    /\ ppc = "check"
    /\ IF ShortCircuit(ShortCircuitWord, pidx)
       THEN /\ ppc' = "skip"
            /\ pidx' = pidx
       ELSE /\ ppc' = "loop"
            /\ pidx' = pidx + 1
    /\ UNCHANGED <<comb, form, hasStop, rich, ntasks, counter_, first_failed,
                   first_completed, stopReq, tpc, tres, tvalue, order,
                   presumed, pout>>
    /\ CombOnly

\* a left_to_run that counts the task just started among the skipped ones
MUT_LeftToRun(n, i) == n - i

\* left_to_run after the short-circuit at task i
LeftToRun(n, i) == n - i - 1

\* the parent's continuation is resumed; it must be suspended, or be the
\* caller of await_suspend that gets its own handle back
ResumeParent(self) ==
    /\ presumed' = presumed + 1
    /\ ppc' = IF self \/ ppc = "suspended" THEN "resume" ELSE "bad_resume"

\* an await_suspend that suspends after the bulk decrement whatever the
\* counter was
MUT_P_Skip ==
    /\ ppc = "skip"
    /\ counter_' = counter_ - LeftToRun(ntasks, pidx)
    /\ ppc' = "suspended"
    /\ presumed' = presumed
    /\ UNCHANGED <<comb, form, hasStop, rich, ntasks, first_failed,
                   first_completed, stopReq, pidx, tpc, tres, tvalue, order, pout>>
    /\ CombOnly

\* await_suspend: counter_.fetch_sub(left_to_run) == left_to_run
P_Skip ==
    /\ ppc = "skip"
    /\ counter_' = counter_ - LeftToRun(ntasks, pidx)
    /\ IF counter_ = LeftToRun(ntasks, pidx)
       THEN ResumeParent(TRUE)
       ELSE /\ ppc' = "suspended"
            /\ presumed' = presumed
    /\ UNCHANGED <<comb, form, hasStop, rich, ntasks, first_failed,
                   first_completed, stopReq, pidx, tpc, tres, tvalue, order, pout>>
    /\ CombOnly

\* await_suspend: last.setup(on_ready, N - 1) and the symmetric transfer
\* into the last task
P_Setup ==
    /\ ppc = "loop"
    /\ pidx = ntasks - 1
    /\ tpc' = [tpc EXCEPT ![pidx] = "running"]
    /\ ppc' = "suspended"
    /\ UNCHANGED <<comb, form, hasStop, rich, ntasks, counter_, first_failed,
                   first_completed, stopReq, pidx, tres, tvalue, order,
                   presumed, pout>>
    /\ CombOnly

\* a plain store in place of the compare-exchange
MUT_CasIndex(word, i) == i

\* compare_exchange_strong(expected = N, index) on an index word
CasIndex(word, i) == IF word = ntasks THEN i ELSE word

\* an on_ready that never calls request_stop
MUT_AfterCas(won) == "dec"

\* on_ready: where the task goes after its compare-exchange
AfterCas(won) == IF won /\ hasStop THEN "stop" ELSE "dec"

\* when_all on_ready(index, success), up to the compare-exchange
WhenAllOnReady(i, r) ==
    /\ first_failed' = IF ~Success(r) THEN CasIndex(first_failed, i) ELSE first_failed
    /\ first_completed' = first_completed
    /\ tpc' = [tpc EXCEPT ![i] = AfterCas(~Success(r) /\ first_failed = ntasks)]

\* a when_any on_ready that requests stop on the first failure
MUT_WhenAnyOnReady(i, r) ==
    /\ first_completed' = IF Success(r) THEN CasIndex(first_completed, i) ELSE first_completed
    /\ first_failed' = IF ~Success(r) THEN CasIndex(first_failed, i) ELSE first_failed
    /\ tpc' = [tpc EXCEPT ![i] = AfterCas(~Success(r) /\ first_failed = ntasks)]

\* when_any on_ready(index, success), up to the compare-exchange
WhenAnyOnReady(i, r) ==
    /\ first_completed' = IF Success(r) THEN CasIndex(first_completed, i) ELSE first_completed
    /\ first_failed' = IF ~Success(r) THEN CasIndex(first_failed, i) ELSE first_failed
    /\ tpc' = [tpc EXCEPT ![i] = AfterCas(Success(r) /\ first_completed = ntasks)]

\* when_all_complete on_ready(success): nothing before the fetch_sub
WhenAllCompleteOnReady(i, r) ==
    /\ UNCHANGED <<first_failed, first_completed>>
    /\ tpc' = [tpc EXCEPT ![i] = "dec"]

\* a task ends: return_value / unhandled_exception store result_, the final
\* awaiter calls on_ready(i, success)
T_OnReady(i, r, v) ==
    /\ i \in Tasks
    /\ tpc[i] = "running"
    /\ tres' = [tres EXCEPT ![i] = r]
    /\ tvalue' = [tvalue EXCEPT ![i] = IF r = "value" THEN v ELSE 0]
    /\ order' = Append(order, i)
    /\ CASE comb = "all" -> WhenAllOnReady(i, r)
         [] comb = "any" -> WhenAnyOnReady(i, r)
         [] OTHER -> WhenAllCompleteOnReady(i, r)
    /\ UNCHANGED <<comb, form, hasStop, rich, ntasks, counter_, stopReq, ppc,
                   pidx, presumed, pout>>
    /\ CombOnly

\* on_ready: stop_source_->request_stop()
T_RequestStop(i) ==
    /\ i \in Tasks
    /\ tpc[i] = "stop"
    /\ stopReq' = TRUE
    /\ tpc' = [tpc EXCEPT ![i] = "dec"]
    /\ UNCHANGED <<comb, form, hasStop, rich, ntasks, counter_, first_failed,
                   first_completed, ppc, pidx, tres, tvalue, order, presumed, pout>>
    /\ CombOnly

\* on_ready: counter_.fetch_sub(1) == 1 returns continuation_
T_Dec(i) ==
    /\ i \in Tasks
    /\ tpc[i] = "dec"
    /\ counter_' = counter_ - 1
    /\ tpc' = [tpc EXCEPT ![i] = "done"]
    /\ IF counter_ = 1
       THEN ResumeParent(FALSE)
       ELSE UNCHANGED <<ppc, presumed>>
    /\ UNCHANGED <<comb, form, hasStop, rich, ntasks, first_failed,
                   first_completed, stopReq, pidx, tres, tvalue, order, pout>>
    /\ CombOnly

Out(k, i, v) == [kind |-> k, idx |-> i, vals |-> v]

Min(S) == CHOOSE x \in S : \A y \in S : x <= y

\* adaptor_task::get_result_value of a task that did not produce a value:
\* the exception is rethrown; std::get<1> of an empty slot throws
\* bad_variant_access
ThrowOf(i) ==
    CASE tres[i] = "exception" -> Out("exception", i, <<>>)
      [] tres[i] = "none" -> Out("bad_access", i, <<>>)
      [] OTHER -> Out("unreachable", i, <<>>)

\* extract_task_error / get_result_value().error() of the failed task
ErrorOf(i) ==
    CASE tres[i] = "exception" -> Out("exception", i, <<>>)
      [] tres[i] = "error" -> Out("error", i, <<>>)
      [] tres[i] = "none" -> Out("bad_access", i, <<>>)
      [] OTHER -> Out("unreachable", i, <<>>)

\* an all-values path that gathers the values in completion order
MUT_AllValues ==
    LET bad == {i \in Tasks : tres[i] # "value"}
    IN  IF bad = {}
        THEN Out("values", 0, [k \in 1..ntasks |-> tvalue[order[k]]])
        ELSE IF tres[Min(bad)] = "exception"
             THEN Out("exception", Min(bad), <<>>)
             ELSE Out("bad_access", Min(bad), <<>>)

\* when_all await_resume, the all-values path: get_result_value of every
\* task in input order
AllValues ==
    LET bad == {i \in Tasks : tres[i] # "value"}
    IN  IF bad = {}
        THEN Out("values", 0, [k \in 1..ntasks |-> tvalue[k - 1]])
        ELSE IF tres[Min(bad)] = "exception"
             THEN Out("exception", Min(bad), <<>>)
             ELSE Out("bad_access", Min(bad), <<>>)

\* when_all_task awaiter::await_resume (variadic form)
WhenAllResumeTuple ==
    IF first_failed < ntasks
    THEN IF rich THEN ErrorOf(first_failed) ELSE ThrowOf(first_failed)
    ELSE AllValues

\* when_all_task_range awaiter::await_resume
WhenAllResumeRange ==
    IF rich
    THEN IF first_failed < ntasks THEN ErrorOf(first_failed) ELSE AllValues
    ELSE AllValues

\* a when_any await_resume that extracts the error of the last failure
MUT_WhenAnyResume ==
    IF form = "range" /\ ntasks = 0
    THEN Out("no_tasks", 0, <<>>)
    ELSE IF first_completed = ntasks
         THEN IF first_failed = ntasks
              THEN Out("unreachable", ntasks, <<>>)
              ELSE ErrorOf(order[Len(order)])
         ELSE IF tres[first_completed] = "value"
              THEN Out("winner", first_completed, <<tvalue[first_completed]>>)
              ELSE ErrorOf(first_completed)

\* when_any awaiter::await_resume (both forms)
WhenAnyResume ==
    IF form = "range" /\ ntasks = 0
    THEN Out("no_tasks", 0, <<>>)
    ELSE IF first_completed = ntasks
         THEN IF first_failed = ntasks
              THEN Out("unreachable", ntasks, <<>>)
              ELSE IF rich THEN ErrorOf(first_failed) ELSE ThrowOf(first_failed)
         ELSE IF tres[first_completed] = "value"
              THEN Out("winner", first_completed, <<tvalue[first_completed]>>)
              ELSE ErrorOf(first_completed)

\* the result slots the all-values loop of when_all reads: every slot in
\* input order, up to the first one that holds no value
AllValuesReads ==
    LET bad == {i \in Tasks : tres[i] # "value"}
    IN  IF bad = {} THEN Tasks ELSE {i \in Tasks : i <= Min(bad)}

\* the result slots when_all await_resume reads: tasks_[failed_index] on
\* the failure path of the variadic form and of the std::expected range
\* form; the range form without std::expected has the loop only
WhenAllReads ==
    IF first_failed < ntasks /\ (form = "tuple" \/ rich)
    THEN {first_failed}
    ELSE AllValuesReads

\* the result slots when_any await_resume reads: tasks_[failed_index] when
\* no task succeeded, tasks_[completed_index] otherwise
WhenAnyReads ==
    IF form = "range" /\ ntasks = 0
    THEN {}
    ELSE IF first_completed = ntasks THEN {first_failed} ELSE {first_completed}

\* the result slots await_resume reads
ReadSlots ==
    CASE comb = "all" -> WhenAllReads
      [] comb = "any" -> WhenAnyReads
      [] OTHER -> Tasks

\* a get_result that reports every slot as ok
MUT_GetResult(i) == [ok |-> TRUE, val |-> tvalue[i]]

\* adaptor_task::get_result as async_result: ok(value) or err(exception)
GetResult(i) == [ok |-> tres[i] = "value", val |-> tvalue[i]]

\* when_all_complete awaiter::await_resume (both forms)
WhenAllCompleteResume ==
    IF \E i \in Tasks : tres[i] = "none"
    THEN Out("bad_access", Min({i \in Tasks : tres[i] = "none"}), <<>>)
    ELSE Out("results", 0, [k \in 1..ntasks |-> GetResult(k - 1)])

\* the resumed parent calls await_resume
P_AwaitResume ==
    /\ ppc = "resume"
    /\ pout' = CASE comb = "all" /\ form = "tuple" -> WhenAllResumeTuple
                 [] comb = "all" /\ form = "range" -> WhenAllResumeRange
                 [] comb = "any" -> WhenAnyResume
                 [] OTHER -> WhenAllCompleteResume
    /\ ppc' = "done"
    /\ UNCHANGED <<comb, form, hasStop, rich, ntasks, counter_, first_failed,
                   first_completed, stopReq, pidx, tpc, tres, tvalue, order,
                   presumed>>
    /\ CombOnly

NextComb ==
    \/ P_AwaitReady
    \/ P_Start
    \/ P_Check
    \/ P_Skip
    \/ P_Setup
    \/ \E i \in TaskIds, r \in Outcomes, v \in Payloads : T_OnReady(i, r, v)
    \/ \E i \in TaskIds : T_RequestStop(i)
    \/ \E i \in TaskIds : T_Dec(i)
    \/ P_AwaitResume

(***************************************************************************)
(* coral::mutex, try_lock(&node) and try_unlock() called directly by        *)
(* threads, each thread with a node of its own that it queues at most once  *)
(***************************************************************************)
\* no call has returned a value yet
nothing == 0 - 1

InitApi ==
    /\ rpc = [c \in Coros |-> "idle"]
    /\ lret = [c \in Coros |-> nothing]
    /\ uret = [c \in Coros |-> nothing]
    /\ retried = [c \in Coros |-> FALSE]
    /\ unlocks = 0

\* std::abort() ended the program
Aborted == \E c \in Coros : rpc[c] = "aborted"

\* try_lock(cur): cur->next = list_.load()
A_TryLockLoad(c) ==
    /\ ~Aborted
    /\ rpc[c] = "idle"
    /\ lret[c] = nothing
    /\ next' = [next EXCEPT ![c] = list_]
    /\ retried' = [retried EXCEPT ![c] = FALSE]
    /\ rpc' = [rpc EXCEPT ![c] = "tl_cas"]
    /\ UNCHANGED <<list_, last, lret, uret, unlocks>>
    /\ ApiOnly

\* try_lock(cur): one compare_exchange_weak; return cur_next_copy
A_TryLockCas(c) ==
    /\ ~Aborted
    /\ rpc[c] = "tl_cas"
    /\ IF list_ = next[c]
       THEN /\ list_' = TryLockNew(c, next[c])
            /\ lret' = [lret EXCEPT ![c] = next[c]]
            /\ rpc' = [rpc EXCEPT ![c] = "idle"]
            /\ UNCHANGED <<next, retried>>
       ELSE /\ next' = [next EXCEPT ![c] = list_]
            /\ retried' = [retried EXCEPT ![c] = TRUE]
            /\ UNCHANGED <<list_, lret, rpc>>
    /\ UNCHANGED <<last, uret, unlocks>>
    /\ ApiOnly

\* try_unlock(): last = list_.load()
A_TryUnlockLoad(c) ==
    /\ ~Aborted
    /\ rpc[c] = "idle"
    /\ unlocks < MaxUnlocks
    /\ unlocks' = unlocks + 1
    /\ last' = [last EXCEPT ![c] = list_]
    /\ uret' = [uret EXCEPT ![c] = nothing]
    /\ retried' = [retried EXCEPT ![c] = FALSE]
    /\ rpc' = [rpc EXCEPT ![c] = "tu_cas"]
    /\ UNCHANGED <<list_, next, lret>>
    /\ ApiOnly

\* try_unlock(): one compare_exchange_weak, then abort or return last
A_TryUnlockCas(c) ==
    /\ ~Aborted
    /\ rpc[c] = "tu_cas"
    /\ IF list_ = last[c]
       THEN /\ list_' = TryUnlockNew(last[c])
            /\ last' = [last EXCEPT ![c] = unlocked]
            /\ IF last[c] = unlocked
               THEN /\ rpc' = [rpc EXCEPT ![c] = "aborted"]
                    /\ uret' = uret
               ELSE /\ rpc' = [rpc EXCEPT ![c] = "idle"]
                    /\ uret' = [uret EXCEPT ![c] = last[c]]
            /\ retried' = retried
       ELSE /\ last' = [last EXCEPT ![c] = list_]
            /\ retried' = [retried EXCEPT ![c] = TRUE]
            /\ UNCHANGED <<list_, rpc, uret>>
    /\ UNCHANGED <<next, lret, unlocks>>
    /\ ApiOnly

NextApi ==
    \E c \in Coros :
        \/ A_TryLockLoad(c)
        \/ A_TryLockCas(c)
        \/ A_TryUnlockLoad(c)
        \/ A_TryUnlockCas(c)

(***************************************************************************)
(* coral::sync_wait and detail::sync_event                                 *)
(*                                                                         *)
(* One thread calls sync_wait; the wrapped task runs inside task.start on  *)
(* that thread until it completes or suspends, and a suspended task is     *)
(* resumed by a worker thread.  The final awaiter of the adapter task      *)
(* calls the ready callback, which is sync_event::set.                     *)
(***************************************************************************)
\* what the adapter promise holds: nothing yet, a value or an exception
NoResult == <<"none", 0>>
Results == {<<"value", v>> : v \in Payloads} \cup {<<"exception", 0>>}

InitSync ==
    /\ signaled_ = FALSE
    /\ mutex_ = "free"
    /\ wpc = "start"
    /\ kpc = "created"
    /\ kthread = "none"
    /\ kresult = NoResult
    /\ wout = NoResult
    /\ spurious = 0

\* task.start(callback): the adapter task runs on the calling thread
SW_Start ==
    /\ wpc = "start"
    /\ wpc' = "in_start"
    /\ kpc' = "running"
    /\ kthread' = "caller"
    /\ UNCHANGED <<signaled_, mutex_, kresult, wout, spurious>>
    /\ SyncOnly

\* the task suspends inside start: start returns and the caller goes on to
\* event.wait()
SW_TaskSuspend ==
    /\ kpc = "running" /\ kthread = "caller"
    /\ kpc' = "suspended"
    /\ wpc' = "wait"
    /\ UNCHANGED <<signaled_, mutex_, kthread, kresult, wout, spurious>>
    /\ SyncOnly

\* another thread resumes the suspended task
SW_TaskResume ==
    /\ kpc = "suspended"
    /\ kpc' = "running"
    /\ kthread' = "worker"
    /\ UNCHANGED <<signaled_, mutex_, wpc, kresult, wout, spurious>>
    /\ SyncOnly

\* the task body ends: return_value / unhandled_exception store the result
\* and the task reaches its final suspend, whose awaiter calls the callback
SW_TaskFinish(r) ==
    /\ kpc = "running"
    /\ kresult' = r
    /\ kpc' = "final"
    /\ UNCHANGED <<signaled_, mutex_, wpc, kthread, wout, spurious>>
    /\ SyncOnly

\* sync_event::set : std::scoped_lock lock{mutex_}
SW_SetLock ==
    /\ kpc = "final"
    /\ mutex_ = "free"
    /\ mutex_' = "set"
    /\ kpc' = "set_locked"
    /\ UNCHANGED <<signaled_, wpc, kthread, kresult, wout, spurious>>
    /\ SyncOnly

\* sync_event::set : signaled_ = true
SW_SetSignal ==
    /\ kpc = "set_locked"
    /\ signaled_' = TRUE
    /\ kpc' = "set_signaled"
    /\ UNCHANGED <<mutex_, wpc, kthread, kresult, wout, spurious>>
    /\ SyncOnly

\* sync_event::set when notify_one wakes nobody
MUT_SW_SetNotify ==
    /\ kpc = "set_signaled"
    /\ kpc' = "set_notified"
    /\ UNCHANGED <<signaled_, mutex_, wpc, kthread, kresult, wout, spurious>>
    /\ SyncOnly

\* sync_event::set : cv_.notify_one() wakes the thread blocked in wait
SW_SetNotify ==
    /\ kpc = "set_signaled"
    /\ kpc' = "set_notified"
    /\ wpc' = IF wpc = "blocked" THEN "woken" ELSE wpc
    /\ UNCHANGED <<signaled_, mutex_, kthread, kresult, wout, spurious>>
    /\ SyncOnly

\* sync_event::set returns: the lock is released, the callback returns
\* noop_coroutine; a task that completed inside start lets start return
SW_SetUnlock ==
    /\ kpc = "set_notified"
    /\ mutex_' = "free"
    /\ kpc' = "done"
    /\ wpc' = IF kthread = "caller" THEN "wait" ELSE wpc
    /\ UNCHANGED <<signaled_, kthread, kresult, wout, spurious>>
    /\ SyncOnly

\* sync_event::wait : std::unique_lock lock{mutex_}
SW_WaitLock ==
    /\ wpc = "wait"
    /\ mutex_ = "free"
    /\ mutex_' = "wait"
    /\ wpc' = "check"
    /\ UNCHANGED <<signaled_, kpc, kthread, kresult, wout, spurious>>
    /\ SyncOnly

\* cv_.wait(lock, pred): with the lock held, return when signaled_, else
\* release the lock and block in one step
SW_WaitCheck ==
    /\ wpc = "check"
    /\ mutex_' = "free"
    /\ wpc' = IF signaled_ THEN "result" ELSE "blocked"
    /\ UNCHANGED <<signaled_, kpc, kthread, kresult, wout, spurious>>
    /\ SyncOnly

\* a condition variable may wake without a notification
SW_Spurious ==
    /\ wpc = "blocked"
    /\ spurious < MaxSpurious
    /\ spurious' = spurious + 1
    /\ wpc' = "woken"
    /\ UNCHANGED <<signaled_, mutex_, kpc, kthread, kresult, wout>>
    /\ SyncOnly

\* the woken thread takes the lock again and re-evaluates the predicate
SW_WakeLock ==
    /\ wpc = "woken"
    /\ mutex_ = "free"
    /\ mutex_' = "wait"
    /\ wpc' = "check"
    /\ UNCHANGED <<signaled_, kpc, kthread, kresult, wout, spurious>>
    /\ SyncOnly

\* return task.get_result_value(): the value, or the exception rethrown
SW_GetResult ==
    /\ wpc = "result"
    /\ wout' = kresult
    /\ wpc' = "returned"
    /\ UNCHANGED <<signaled_, mutex_, kpc, kthread, kresult, spurious>>
    /\ SyncOnly

\* the steps of the thread inside sync_event::set
SetterSteps == SW_SetLock \/ SW_SetSignal \/ SW_SetNotify \/ SW_SetUnlock

\* the steps of the caller inside sync_event::wait and after it
WaiterSteps == SW_WaitLock \/ SW_WaitCheck \/ SW_WakeLock \/ SW_GetResult

NextSync ==
    \/ SW_Start
    \/ SW_TaskSuspend
    \/ SW_TaskResume
    \/ \E r \in Results : SW_TaskFinish(r)
    \/ SW_SetLock
    \/ SW_SetSignal
    \/ SW_SetNotify
    \/ SW_SetUnlock
    \/ SW_WaitLock
    \/ SW_WaitCheck
    \/ SW_Spurious
    \/ SW_WakeLock
    \/ SW_GetResult

(***************************************************************************)
(* coral::when_stopped : detail::stop_token_awaiter                        *)
(*                                                                         *)
(* One coroutine awaits when_stopped(token); the threads of Stoppers call  *)
(* request_stop on the stop source of the token.                           *)
(***************************************************************************)
InitStop ==
    /\ stopped = FALSE
    /\ callback_ = "empty"
    /\ race_flag_ = 0
    /\ hpc = "start"
    /\ qpc = [q \in Stoppers |-> "idle"]
    /\ hcont = 0
    /\ how = {}

\* the awaiting coroutine goes on past the co_await
Continue(way) ==
    /\ hpc' = "continued"
    /\ hcont' = hcont + 1
    /\ how' = how \cup {way}

\* await_ready: stop_token_.stop_requested()
TS_AwaitReady ==
    /\ hpc = "start"
    /\ IF stopped
         THEN Continue("ready")
         ELSE /\ hpc' = "emplace"
              /\ UNCHANGED <<hcont, how>>
    /\ UNCHANGED <<stopped, callback_, race_flag_, qpc>>
    /\ StopOnly

\* await_suspend: callback_.emplace(...).  The std::stop_callback
\* constructor runs the callback at once on this thread when stop has
\* been requested already, else it registers it with the stop state.
TS_Emplace ==
    /\ hpc = "emplace"
    /\ IF stopped
         THEN /\ callback_' = "invoked"
              /\ race_flag_' = race_flag_ + 1
              /\ IF race_flag_ = 1
                   THEN Continue("callback")
                   ELSE /\ hpc' = "bump"
                        /\ UNCHANGED <<hcont, how>>
         ELSE /\ callback_' = "listed"
              /\ hpc' = "bump"
              /\ UNCHANGED <<race_flag_, hcont, how>>
    /\ UNCHANGED <<stopped, qpc>>
    /\ StopOnly

\* await_suspend: c = race_flag_.fetch_add(1); return c == 0
TS_Bump ==
    /\ hpc = "bump"
    /\ race_flag_' = race_flag_ + 1
    /\ IF race_flag_ = 0
         THEN /\ hpc' = "suspended"
              /\ UNCHANGED <<hcont, how>>
         ELSE Continue("declined")
    /\ UNCHANGED <<stopped, callback_, qpc>>
    /\ StopOnly

\* stop_source::request_stop: only the first request makes the state
\* stopped and runs the registered callbacks, on the requesting thread
TS_RequestStop(q) ==
    /\ qpc[q] = "idle"
    /\ stopped' = TRUE
    /\ IF ~stopped /\ callback_ = "listed"
         THEN /\ callback_' = "invoked"
              /\ qpc' = [qpc EXCEPT ![q] = "callback"]
         ELSE /\ qpc' = [qpc EXCEPT ![q] = "done"]
              /\ UNCHANGED callback_
    /\ UNCHANGED <<race_flag_, hpc, hcont, how>>
    /\ StopOnly

\* the callback resumes the continuation although await_suspend has not
\* counted yet
MUT_TS_Callback(q) ==
    /\ qpc[q] = "callback"
    /\ race_flag_' = race_flag_ + 1
    /\ Continue("callback")
    /\ qpc' = [qpc EXCEPT ![q] = "resuming"]
    /\ UNCHANGED <<stopped, callback_>>
    /\ StopOnly

\* stop_callback::operator(): c = race_flag_.fetch_add(1);
\* if (c == 1) continuation()
TS_Callback(q) ==
    /\ qpc[q] = "callback"
    /\ race_flag_' = race_flag_ + 1
    /\ IF race_flag_ = 1
         THEN /\ Continue("callback")
              /\ qpc' = [qpc EXCEPT ![q] = "resuming"]
         ELSE /\ qpc' = [qpc EXCEPT ![q] = "done"]
              /\ UNCHANGED <<hpc, hcont, how>>
    /\ UNCHANGED <<stopped, callback_>>
    /\ StopOnly

\* continuation() returns to the callback when the resumed coroutine
\* suspends or ends, and request_stop returns
TS_CallbackReturn(q) ==
    /\ qpc[q] = "resuming"
    /\ hpc = "finished"
    /\ qpc' = [qpc EXCEPT ![q] = "done"]
    /\ UNCHANGED <<stopped, callback_, race_flag_, hpc, hcont, how>>
    /\ StopOnly

\* the co_await expression ends: the awaiter and its callback_ are
\* destroyed; ~stop_callback waits for a callback running on another thread
TS_Finish ==
    /\ hpc = "continued"
    /\ \A q \in Stoppers : qpc[q] # "callback"
    /\ hpc' = "finished"
    /\ callback_' = "empty"
    /\ UNCHANGED <<stopped, race_flag_, qpc, hcont, how>>
    /\ StopOnly

NextStop ==
    \/ TS_AwaitReady
    \/ TS_Emplace
    \/ TS_Bump
    \/ \E q \in Stoppers : TS_RequestStop(q)
    \/ \E q \in Stoppers : TS_Callback(q)
    \/ \E q \in Stoppers : TS_CallbackReturn(q)
    \/ TS_Finish

(***************************************************************************)
(* coral::when_signal : detail::interrupt_awaiter, detail::interrupt_state *)
(*                                                                         *)
(* The coroutines of Awaiters each await when_signal(token, SIGINT) once,  *)
(* each with one of the stop tokens of Tokens; await_suspend starts a      *)
(* detached thread that runs interrupt_state::run.                         *)
(***************************************************************************)
nobody == 0

InitSignal ==
    /\ reinterant_flag = FALSE
    /\ interrupt_flag = nobody
    /\ my_flag = [a \in Awaiters |-> FALSE]
    /\ handler = "SIG_DFL"
    /\ gtok \in [Awaiters -> Tokens]
    /\ tstop = [k \in Tokens |-> FALSE]
    /\ gpc = [a \in Awaiters |-> "start"]
    /\ jpc = [a \in Awaiters |-> "none"]

\* the awaiters of a program that does not use when_signal
IdleSignal == InitSignal /\ gtok = [a \in Awaiters |-> 1]

\* await_ready: stop_token_.stop_requested()
G_AwaitReady(a) ==
    /\ gpc[a] = "start"
    /\ gpc' = [gpc EXCEPT ![a] = IF tstop[gtok[a]] THEN "resume" ELSE "suspend"]
    /\ UNCHANGED <<reinterant_flag, interrupt_flag, my_flag, handler, gtok, tstop, jpc>>
    /\ SignalOnly

\* await_suspend: if (reinterant_flag.exchange(true)) throw runtime_error;
\* else start the detached thread
G_AwaitSuspend(a) ==
    /\ gpc[a] = "suspend"
    /\ reinterant_flag' = TRUE
    /\ IF reinterant_flag
         THEN /\ gpc' = [gpc EXCEPT ![a] = "threw"]
              /\ UNCHANGED jpc
         ELSE /\ gpc' = [gpc EXCEPT ![a] = "pending"]
              /\ jpc' = [jpc EXCEPT ![a] = "cas"]
    /\ UNCHANGED <<interrupt_flag, my_flag, handler, gtok, tstop>>
    /\ SignalOnly

\* run: flag.compare_exchange_strong(null_ptr, &my_flag); on failure the
\* thread goes straight to handle()
G_RunCas(a) ==
    /\ jpc[a] = "cas"
    /\ IF interrupt_flag = nobody
         THEN /\ interrupt_flag' = a
              /\ jpc' = [jpc EXCEPT ![a] = "register"]
         ELSE /\ jpc' = [jpc EXCEPT ![a] = "handle"]
              /\ UNCHANGED interrupt_flag
    /\ UNCHANGED <<reinterant_flag, my_flag, handler, gtok, tstop, gpc>>
    /\ SignalOnly

\* run: std::stop_callback stop{stop_token, ...}; the constructor runs the
\* callback at once when stop has been requested already
G_Register(a) ==
    /\ jpc[a] = "register"
    /\ my_flag' = [my_flag EXCEPT ![a] = tstop[gtok[a]]]
    /\ jpc' = [jpc EXCEPT ![a] = "signal"]
    /\ UNCHANGED <<reinterant_flag, interrupt_flag, handler, gtok, tstop, gpc>>
    /\ SignalOnly

\* run: std::signal(sig, &interrupt_state::sig_handler)
G_Signal(a) ==
    /\ jpc[a] = "signal"
    /\ handler' = "sig_handler"
    /\ jpc' = [jpc EXCEPT ![a] = "wait"]
    /\ UNCHANGED <<reinterant_flag, interrupt_flag, my_flag, gtok, tstop, gpc>>
    /\ SignalOnly

\* run: my_flag.wait(false) returns once my_flag is true; the stop
\* callback is then destroyed
G_Wait(a) ==
    /\ jpc[a] = "wait"
    /\ my_flag[a]
    /\ jpc' = [jpc EXCEPT ![a] = "reset"]
    /\ UNCHANGED <<reinterant_flag, interrupt_flag, my_flag, handler, gtok, tstop, gpc>>
    /\ SignalOnly

\* run: std::signal(sig, SIG_DFL)
G_ResetHandler(a) ==
    /\ jpc[a] = "reset"
    /\ handler' = "SIG_DFL"
    /\ jpc' = [jpc EXCEPT ![a] = "release"]
    /\ UNCHANGED <<reinterant_flag, interrupt_flag, my_flag, gtok, tstop, gpc>>
    /\ SignalOnly

\* run: flag.store(nullptr)
G_Release(a) ==
    /\ jpc[a] = "release"
    /\ interrupt_flag' = nobody
    /\ jpc' = [jpc EXCEPT ![a] = "handle"]
    /\ UNCHANGED <<reinterant_flag, my_flag, handler, gtok, tstop, gpc>>
    /\ SignalOnly

\* run: handle() resumes the awaiting coroutine on this thread
G_Handle(a) ==
    /\ jpc[a] = "handle"
    /\ gpc' = [gpc EXCEPT ![a] = "resume"]
    /\ jpc' = [jpc EXCEPT ![a] = "end"]
    /\ UNCHANGED <<reinterant_flag, interrupt_flag, my_flag, handler, gtok, tstop>>
    /\ SignalOnly

\* await_resume: reinterant_flag.store(false)
G_AwaitResume(a) ==
    /\ gpc[a] = "resume"
    /\ reinterant_flag' = FALSE
    /\ gpc' = [gpc EXCEPT ![a] = "done"]
    /\ UNCHANGED <<interrupt_flag, my_flag, handler, gtok, tstop, jpc>>
    /\ SignalOnly

\* request_stop on the source of token k runs the registered stop
\* callbacks: my_flag.store(true); my_flag.notify_one()
G_RequestStop(k) ==
    /\ ~tstop[k]
    /\ tstop' = [tstop EXCEPT ![k] = TRUE]
    /\ my_flag' = [a \in Awaiters |->
                      IF gtok[a] = k /\ jpc[a] \in {"signal", "wait"}
                        THEN TRUE ELSE my_flag[a]]
    /\ UNCHANGED <<reinterant_flag, interrupt_flag, handler, gtok, gpc, jpc>>
    /\ SignalOnly

\* the signal is delivered while sig_handler is installed:
\* flag_ptr = flag.load(); if (flag_ptr) flag_ptr->store(true)
G_Raise ==
    /\ handler = "sig_handler"
    /\ interrupt_flag # nobody
    /\ ~my_flag[interrupt_flag]
    /\ my_flag' = [my_flag EXCEPT ![interrupt_flag] = TRUE]
    /\ UNCHANGED <<reinterant_flag, interrupt_flag, handler, gtok, tstop, gpc, jpc>>
    /\ SignalOnly

NextSignal ==
    \/ \E a \in Awaiters :
          \/ G_AwaitReady(a)
          \/ G_AwaitSuspend(a)
          \/ G_RunCas(a)
          \/ G_Register(a)
          \/ G_Signal(a)
          \/ G_Wait(a)
          \/ G_ResetHandler(a)
          \/ G_Release(a)
          \/ G_Handle(a)
          \/ G_AwaitResume(a)
    \/ \E k \in Tokens : G_RequestStop(k)
    \/ G_Raise

(***************************************************************************)
(* coral::task, detail::task_promise_base, detail::task_awaiter            *)
(*                                                                         *)
(* A chain of coroutines on one thread: coroutine 0 is the one that        *)
(* creates the outermost task, coroutine i (1..klen) is the body of task   *)
(* i; each body creates task i+1 and either awaits it or lets it go out of *)
(* scope.  A body may suspend on something else once and is then resumed   *)
(* from outside by a plain resume().  depth counts the nested resume()     *)
(* frames on the call stack.                                               *)
(***************************************************************************)
Chain == 0..MaxDepth
noop == 0 - 1

InitTask ==
    /\ klen \in 1..MaxDepth
    /\ cpc = [i \in Chain |-> IF i = 0 THEN "begin" ELSE "none"]
    /\ continuation_ = [i \in Chain |-> noop]
    /\ result_ = [i \in Chain |-> NoResult]
    /\ got = [i \in Chain |-> NoResult]
    /\ resumes = [i \in Chain |-> 0]
    /\ ran = [i \in Chain |-> i = 0]
    /\ awaited = [i \in Chain |-> FALSE]
    /\ ext = [i \in Chain |-> FALSE]
    /\ current = 0
    /\ depth = 1

\* the chain of a program that awaits no task
IdleTask == InitTask /\ klen = 1

\* initial_suspend of a task made while its body starts at once
MUT_InitialSuspend(i) == "begin"

\* initial_suspend() returns std::suspend_always: the new coroutine is
\* left suspended before its body
InitialSuspend(i) == "created"

\* coroutine i calls the coroutine function of task i+1: the frame and the
\* promise are made (continuation_ = noop_coroutine) and the task object
\* is returned
K_Create(i) ==
    /\ current = i /\ cpc[i] = "begin"
    /\ i < klen
    /\ cpc' = [cpc EXCEPT ![i] = "made", ![i + 1] = InitialSuspend(i + 1)]
    /\ ran' = [ran EXCEPT ![i + 1] = (InitialSuspend(i + 1) = "begin")]
    /\ continuation_' = [continuation_ EXCEPT ![i + 1] = noop]
    /\ UNCHANGED <<klen, result_, got, resumes, awaited, ext, current, depth>>
    /\ TaskOnly

\* what entering the child costs when await_suspend calls resume() on it
MUT_Transfer(d) == d + 1

\* await_suspend returns a coroutine_handle: the resumption of that
\* coroutine replaces the current frame (symmetric transfer)
Transfer(d) == d

\* co_await task: task_awaiter::await_ready is false for a task that has
\* not finished; await_suspend stores the continuation in the promise of
\* the child and returns the handle of the child
K_Await(i) ==
    /\ current = i /\ cpc[i] = "made"
    /\ cpc[i + 1] = "created"
    /\ continuation_' = [continuation_ EXCEPT ![i + 1] = i]
    /\ awaited' = [awaited EXCEPT ![i + 1] = TRUE]
    /\ cpc' = [cpc EXCEPT ![i] = "awaiting", ![i + 1] = "begin"]
    /\ ran' = [ran EXCEPT ![i + 1] = TRUE]
    /\ current' = i + 1
    /\ depth' = Transfer(depth)
    /\ UNCHANGED <<klen, result_, got, resumes, ext>>
    /\ TaskOnly

\* the task object goes out of scope without having been awaited:
\* ~task destroys the suspended coroutine
K_Drop(i) ==
    /\ current = i /\ cpc[i] = "made"
    /\ cpc[i + 1] = "created"
    /\ cpc' = [cpc EXCEPT ![i] = "after", ![i + 1] = "destroyed"]
    /\ UNCHANGED <<klen, continuation_, result_, got, resumes, ran, awaited,
                   ext, current, depth>>
    /\ TaskOnly

\* the innermost body has no task to make
K_Leaf(i) ==
    /\ current = i /\ cpc[i] = "begin"
    /\ i = klen
    /\ cpc' = [cpc EXCEPT ![i] = "after"]
    /\ UNCHANGED <<klen, continuation_, result_, got, resumes, ran, awaited,
                   ext, current, depth>>
    /\ TaskOnly

\* a body suspends on an awaitable that is not a task: control returns to
\* whoever called resume()
K_Suspend(i) ==
    /\ current = i /\ cpc[i] = "begin"
    /\ i > 0 /\ ~ext[i]
    /\ ext' = [ext EXCEPT ![i] = TRUE]
    /\ cpc' = [cpc EXCEPT ![i] = "external"]
    /\ current' = noop
    /\ depth' = depth - 1
    /\ UNCHANGED <<klen, continuation_, result_, got, resumes, ran, awaited>>
    /\ TaskOnly

\* the suspended body is resumed from outside with handle.resume()
K_Resume(i) ==
    /\ current = noop /\ cpc[i] = "external"
    /\ cpc' = [cpc EXCEPT ![i] = "begin"]
    /\ current' = i
    /\ depth' = depth + 1
    /\ UNCHANGED <<klen, continuation_, result_, got, resumes, ran, awaited, ext>>
    /\ TaskOnly

\* the body of task i ends with co_return or with an exception:
\* return_value / unhandled_exception fill result_, and final_awaiter::
\* await_suspend returns continuation_
K_Finish(i, r) ==
    /\ current = i /\ cpc[i] = "after"
    /\ i > 0
    /\ result_' = [result_ EXCEPT ![i] = r]
    /\ IF continuation_[i] = noop
         THEN /\ cpc' = [cpc EXCEPT ![i] = "final"]
              /\ current' = noop
              /\ depth' = depth - 1
              /\ UNCHANGED resumes
         ELSE /\ cpc' = [cpc EXCEPT ![i] = "final",
                                    ![continuation_[i]] = "resumed"]
              /\ resumes' = [resumes EXCEPT ![continuation_[i]] = @ + 1]
              /\ current' = continuation_[i]
              /\ depth' = Transfer(depth)
    /\ UNCHANGED <<klen, continuation_, got, ran, awaited, ext>>
    /\ TaskOnly

\* task_awaiter::await_resume returns promise().result(): the value, or
\* the stored exception rethrown; ~task_awaiter then destroys the child
K_AwaitResume(i) ==
    /\ current = i /\ cpc[i] = "resumed"
    /\ got' = [got EXCEPT ![i] = result_[i + 1]]
    /\ cpc' = [cpc EXCEPT ![i] = "after", ![i + 1] = "destroyed"]
    /\ UNCHANGED <<klen, continuation_, result_, resumes, ran, awaited, ext,
                   current, depth>>
    /\ TaskOnly

\* coroutine 0 ends: control returns to whoever resumed it
K_End ==
    /\ current = 0 /\ cpc[0] = "after"
    /\ cpc' = [cpc EXCEPT ![0] = "done"]
    /\ current' = noop
    /\ depth' = depth - 1
    /\ UNCHANGED <<klen, continuation_, result_, got, resumes, ran, awaited, ext>>
    /\ TaskOnly

NextTask ==
    \/ \E i \in Chain :
          \/ K_Create(i)
          \/ K_Await(i)
          \/ K_Drop(i)
          \/ K_Leaf(i)
          \/ K_Suspend(i)
          \/ K_Resume(i)
          \/ \E r \in Results : K_Finish(i, r)
          \/ K_AwaitResume(i)
    \/ K_End

(***************************************************************************)
(* coral::generator                                                        *)
(*                                                                         *)
(* The producer yields the elements of yseq one after the other and then   *)
(* ends, with an exception if ythrow.  The consumer runs                   *)
(*     for (auto it = g.begin(); it != g.end(); ++it) read *it;            *)
(* promise value_ points at the yielded object: here the position of the   *)
(* element in yseq, 0 for nullptr.                                         *)
(***************************************************************************)
RECURSIVE SeqsUpTo(_)
SeqsUpTo(n) ==
    IF n = 0 THEN {<<>>}
    ELSE SeqsUpTo(n - 1) \cup
         {Append(q, v) : q \in {x \in SeqsUpTo(n - 1) : Len(x) = n - 1}, v \in Payloads}

InitGen ==
    /\ yseq \in SeqsUpTo(MaxLen)
    /\ ythrow \in BOOLEAN
    /\ ypos = 0
    /\ ydone = FALSE
    /\ yvalue = 0
    /\ yexc = FALSE
    /\ ipc = "none"
    /\ yout = <<>>

\* the generator of a program that does not use one
IdleGen == InitGen /\ yseq = <<>> /\ ~ythrow

\* coro_.resume(): the producer runs to its next co_yield, where
\* yield_value stores the address of the yielded object, or to its end,
\* where unhandled_exception stores the exception, and suspends
ResumeProducer ==
    IF ypos < Len(yseq)
      THEN /\ ypos' = ypos + 1
           /\ yvalue' = ypos + 1
           /\ UNCHANGED <<ydone, yexc>>
      ELSE /\ ydone' = TRUE
           /\ yexc' = ythrow
           /\ UNCHANGED <<ypos, yvalue>>

\* promise().rethrow_if_exception() after the resume: where the caller
\* goes on
AfterResume == IF yexc' THEN "threw" ELSE "compare"

\* generator::begin: coro_.resume(); rethrow_if_exception();
\* return iterator{coro_}
Y_Begin ==
    /\ ipc = "none"
    /\ ResumeProducer
    /\ ipc' = AfterResume
    /\ UNCHANGED <<yseq, ythrow, yout>>
    /\ GenOnly

\* an iterator that equals the sentinel once the last element was yielded
MUT_IsEnd == ydone \/ ypos = Len(yseq)

\* operator==(it, default_sentinel): !it.coro_ || it.coro_.done()
IsEnd == ydone

\* the loop condition it != g.end()
Y_Compare ==
    /\ ipc = "compare"
    /\ ipc' = IF IsEnd THEN "ended" ELSE "read"
    /\ UNCHANGED <<yseq, ythrow, ypos, ydone, yvalue, yexc, yout>>
    /\ GenOnly

\* iterator::operator* : *coro_.promise().value()
Y_Read ==
    /\ ipc = "read"
    /\ yout' = Append(yout, yseq[yvalue])
    /\ ipc' = "inc"
    /\ UNCHANGED <<yseq, ythrow, ypos, ydone, yvalue, yexc>>
    /\ GenOnly

\* iterator::operator++ : coro_.resume(); rethrow_if_exception()
Y_Inc ==
    /\ ipc = "inc"
    /\ ResumeProducer
    /\ ipc' = AfterResume
    /\ UNCHANGED <<yseq, ythrow, yout>>
    /\ GenOnly

NextGen ==
    \/ Y_Begin
    \/ Y_Compare
    \/ Y_Read
    \/ Y_Inc

(***************************************************************************)
(* coral::async_generator                                                  *)
(*                                                                         *)
(* The producer yields the elements of aseq one after the other and then   *)
(* ends, with an exception if athrow; between two yields it may suspend    *)
(* once on another awaitable and be resumed from outside.  The consumer    *)
(* calls co_await gen.next() up to MaxCalls times and reads each result    *)
(* at once.                                                                *)
(***************************************************************************)
MaxCalls == MaxLen + 2

InitAGen ==
    /\ aseq \in SeqsUpTo(MaxLen)
    /\ athrow \in BOOLEAN
    /\ bpos = 0
    /\ bpc = "initial"
    /\ bvalue = 0
    /\ bexc = FALSE
    /\ bext = FALSE
    /\ consumer_ = FALSE
    /\ xpc = "idle"
    /\ calls = 0
    /\ bres = <<>>
    /\ threwAt = 0

\* the async_generator of a program that does not use one
IdleAGen == InitAGen /\ aseq = <<>> /\ ~athrow

\* yield_awaiter / final_awaiter await_suspend:
\* return consumer_ ? consumer_ : noop_coroutine()
ToConsumer == IF consumer_ THEN "resume" ELSE xpc

\* co_await gen.next(): await_ready is true when the producer is done;
\* else await_suspend sets the consumer and returns the producer's handle
AG_Next ==
    /\ xpc = "idle"
    /\ calls < MaxCalls
    /\ calls' = calls + 1
    /\ IF bpc = "final"
         THEN /\ xpc' = "resume"
              /\ UNCHANGED <<consumer_, bpc>>
         ELSE /\ consumer_' = TRUE
              /\ bpc' = "running"
              /\ xpc' = "suspended"
    /\ UNCHANGED <<aseq, athrow, bpos, bvalue, bexc, bext, bres, threwAt>>
    /\ AGenOnly

\* the producer body awaits something else and suspends
AG_Suspend ==
    /\ bpc = "running"
    /\ ~bext
    /\ bext' = TRUE
    /\ bpc' = "external"
    /\ UNCHANGED <<aseq, athrow, bpos, bvalue, bexc, consumer_, xpc, calls,
                   bres, threwAt>>
    /\ AGenOnly

\* the producer body is resumed by what it awaited
AG_Resume ==
    /\ bpc = "external"
    /\ bpc' = "running"
    /\ UNCHANGED <<aseq, athrow, bpos, bvalue, bexc, bext, consumer_, xpc,
                   calls, bres, threwAt>>
    /\ AGenOnly

\* a co_yield after which the producer goes on running
MUT_AG_Yield ==
    /\ bpc = "running"
    /\ bpos < Len(aseq)
    /\ bpos' = bpos + 1
    /\ bvalue' = bpos + 1
    /\ UNCHANGED <<aseq, athrow, bpc, bexc, bext, consumer_, xpc, calls, bres,
                   threwAt>>
    /\ AGenOnly

\* co_yield: yield_value stores the address of the yielded object; the
\* producer suspends and the awaiter transfers to the consumer
AG_Yield ==
    /\ bpc = "running"
    /\ bpos < Len(aseq)
    /\ bpos' = bpos + 1
    /\ bvalue' = bpos + 1
    /\ bpc' = "yielded"
    /\ bext' = FALSE
    /\ xpc' = ToConsumer
    /\ UNCHANGED <<aseq, athrow, bexc, consumer_, calls, bres, threwAt>>
    /\ AGenOnly

\* the producer body ends: return_void, or unhandled_exception stores the
\* exception; final_suspend transfers to the consumer
AG_Finish ==
    /\ bpc = "running"
    /\ bpos = Len(aseq)
    /\ bexc' = athrow
    /\ threwAt' = IF athrow THEN calls ELSE 0
    /\ bpc' = "final"
    /\ xpc' = ToConsumer
    /\ UNCHANGED <<aseq, athrow, bpos, bvalue, bext, consumer_, calls, bres>>
    /\ AGenOnly

\* next_awaiter::await_resume: rethrow_if_exception (which moves
\* exception_ out, leaving it null), then an empty result when the
\* producer is done, else a result whose value is *promise().value()
AG_AwaitResume ==
    /\ xpc = "resume"
    /\ bres' = Append(bres,
                  IF bexc THEN <<"exception", 0>>
                  ELSE IF bpc = "final" THEN <<"end", 0>>
                  ELSE <<"value", aseq[bvalue]>>)
    /\ bexc' = FALSE
    /\ xpc' = "idle"
    /\ UNCHANGED <<aseq, athrow, bpos, bpc, bvalue, bext, consumer_, calls,
                   threwAt>>
    /\ AGenOnly

NextAGen ==
    \/ AG_Next
    \/ AG_Suspend
    \/ AG_Resume
    \/ AG_Yield
    \/ AG_Finish
    \/ AG_AwaitResume

(***************************************************************************)
(* coral::unique_lock : construction by await_resume, unlock(), the        *)
(* destructor, move construction and move assignment                       *)
(*                                                                         *)
(* Each locker is a coroutine that awaits when_locked(mutex, scheduler)    *)
(* once and keeps the lock it gets in the first of its Slots unique_lock   *)
(* variables; it may unlock, move and destroy its variables in any order.  *)
(* The scheduler enqueues the handle it is given, so schedule() returns    *)
(* before the scheduled locker runs.                                       *)
(***************************************************************************)
InitLock ==
    /\ ulist = unlocked
    /\ unode = [c \in Lockers |-> unlocked]
    /\ ualive = [c \in Lockers |-> [s \in Slots |-> FALSE]]
    /\ umutex_ = [c \in Lockers |-> [s \in Slots |-> FALSE]]
    /\ unext_ = [c \in Lockers |-> [s \in Slots |-> unlocked]]
    /\ upc = [c \in Lockers |-> "start"]
    /\ urel = [c \in Lockers |-> 0]
    /\ ubad = FALSE

\* awaiter::await_suspend: try_lock(this); the coroutine goes on at once
\* when the mutex was unlocked and is suspended otherwise
U_AwaitSuspend(c) ==
    /\ ~ubad
    /\ upc[c] = "start"
    /\ unode' = [unode EXCEPT ![c] = ulist]
    /\ ulist' = TryLockNew(c, ulist)
    /\ upc' = [upc EXCEPT ![c] = IF ulist = unlocked THEN "resume" ELSE "waiting"]
    /\ UNCHANGED <<ualive, umutex_, unext_, urel, ubad>>
    /\ LockOnly

\* awaiter::await_resume: unique_lock{*mutex_, next, scheduler_}
U_AwaitResume(c) ==
    /\ ~ubad
    /\ upc[c] = "resume"
    /\ ualive' = [ualive EXCEPT ![c][1] = TRUE]
    /\ umutex_' = [umutex_ EXCEPT ![c][1] = TRUE]
    /\ unext_' = [unext_ EXCEPT ![c][1] = unode[c]]
    /\ upc' = [upc EXCEPT ![c] = "holding"]
    /\ UNCHANGED <<ulist, unode, urel, ubad>>
    /\ LockOnly

\* scheduler_.schedule(h) for the handle of locker t
ScheduleLocker(t) ==
    /\ upc' = [upc EXCEPT ![t] = "resume"]
    /\ ubad' = (ubad \/ upc[t] # "waiting")

\* unique_lock::unlock of variable s of locker c, up to the two
\* assignments that end it: the successor in next_ is scheduled, or
\* try_unlock is called and the waiter it returns is scheduled
UnlockBody(c, s) ==
    IF IsNode(unext_[c][s])
      THEN /\ ScheduleLocker(CoroOf(unext_[c][s]))
           /\ urel' = [urel EXCEPT ![c] = @ + 1]
           /\ ulist' = ulist
      ELSE IF umutex_[c][s]
             THEN /\ ulist' = TryUnlockNew(ulist)
                  /\ urel' = [urel EXCEPT ![c] = @ + 1]
                  /\ IF ulist = unlocked
                       THEN upc' = upc /\ ubad' = TRUE
                       ELSE IF ulist # locked
                              THEN ScheduleLocker(CoroOf(ulist))
                              ELSE UNCHANGED <<upc, ubad>>
             ELSE UNCHANGED <<ulist, upc, urel, ubad>>

\* an explicit lock.unlock(): ... next_ = mutex::locked; mutex_ = nullptr
U_Unlock(c, s) ==
    /\ ~ubad
    /\ ualive[c][s]
    /\ UnlockBody(c, s)
    /\ unext_' = [unext_ EXCEPT ![c][s] = locked]
    /\ umutex_' = [umutex_ EXCEPT ![c][s] = FALSE]
    /\ UNCHANGED <<unode, ualive>>
    /\ LockOnly

\* ~unique_lock() { unlock(); }
U_Destroy(c, s) ==
    /\ ~ubad
    /\ ualive[c][s]
    /\ UnlockBody(c, s)
    /\ unext_' = [unext_ EXCEPT ![c][s] = locked]
    /\ umutex_' = [umutex_ EXCEPT ![c][s] = FALSE]
    /\ ualive' = [ualive EXCEPT ![c][s] = FALSE]
    /\ UNCHANGED unode
    /\ LockOnly

\* a move constructor that copies mutex_ and next_ and leaves the source
\* as it was
MUT_U_MoveConstruct(c, s, t) ==
    /\ ~ubad
    /\ s # t
    /\ ualive[c][s] /\ ~ualive[c][t]
    /\ ualive' = [ualive EXCEPT ![c][t] = TRUE]
    /\ umutex_' = [umutex_ EXCEPT ![c][t] = umutex_[c][s]]
    /\ unext_' = [unext_ EXCEPT ![c][t] = unext_[c][s]]
    /\ UNCHANGED <<ulist, unode, upc, urel, ubad>>
    /\ LockOnly

\* unique_lock(unique_lock&& other): variable t is constructed from s;
\* mutex_(exchange(other.mutex_, nullptr)),
\* next_(exchange(other.next_, mutex::unlocked))
U_MoveConstruct(c, s, t) ==
    /\ ~ubad
    /\ s # t
    /\ ualive[c][s] /\ ~ualive[c][t]
    /\ ualive' = [ualive EXCEPT ![c][t] = TRUE]
    /\ umutex_' = [umutex_ EXCEPT ![c][t] = umutex_[c][s], ![c][s] = FALSE]
    /\ unext_' = [unext_ EXCEPT ![c][t] = unext_[c][s], ![c][s] = unlocked]
    /\ UNCHANGED <<ulist, unode, upc, urel, ubad>>
    /\ LockOnly

\* operator=(unique_lock&& other), t = std::move(s): unlock() of t, then
\* the two exchanges
U_MoveAssign(c, s, t) ==
    /\ ~ubad
    /\ s # t
    /\ ualive[c][s] /\ ualive[c][t]
    /\ UnlockBody(c, t)
    /\ umutex_' = [umutex_ EXCEPT ![c][t] = umutex_[c][s], ![c][s] = FALSE]
    /\ unext_' = [unext_ EXCEPT ![c][t] = unext_[c][s], ![c][s] = unlocked]
    /\ UNCHANGED <<unode, ualive>>
    /\ LockOnly

NextLock ==
    \E c \in Lockers :
        \/ U_AwaitSuspend(c)
        \/ U_AwaitResume(c)
        \/ \E s \in Slots : U_Unlock(c, s)
        \/ \E s \in Slots : U_Destroy(c, s)
        \/ \E s, t \in Slots : U_MoveConstruct(c, s, t)
        \/ \E s, t \in Slots : U_MoveAssign(c, s, t)

(***************************************************************************)
(* Specifications: one per component, the others at rest.                  *)
(***************************************************************************)
StartMutex == InitMutex /\ InitNursery /\ InitEvent /\ IdleComb /\ InitApi /\ InitSync /\ InitStop /\ IdleSignal /\ IdleTask /\ IdleGen /\ IdleAGen /\ InitLock /\ InitPassed
SpecMutex == StartMutex /\ [][NextMutex]_vars

\* the steps of coroutine c between getting the lock and the end of the
\* unlock() that releases it
HolderSteps(c) ==
    \/ M_AwaitResume(c)
    \/ M_Write(c)
    \/ M_Unlock(c)
    \/ M_TryUnlockCas(c)
    \/ M_UnlockHandOff(c)
    \/ M_UnlockEnd(c)

\* every lock holder goes on until it has released its unique_lock
SpecMutexLive ==
    StartMutex /\ [][NextMutex]_vars /\ \A c \in Coros : WF_vars(HolderSteps(c))

StartNursery == InitNursery /\ IdleMutex /\ InitEvent /\ IdleComb /\ InitApi /\ InitSync /\ InitStop /\ IdleSignal /\ IdleTask /\ IdleGen /\ IdleAGen /\ InitLock /\ InitPassed
SpecNursery == StartNursery /\ [][NextNursery]_vars

\* every started child goes on to its end: the scheduler that resumes a
\* suspended child does so eventually
ChildrenFinish == \E k \in Children, threw \in BOOLEAN : N_ChildFinish(k, threw)
SpecNurseryLive == StartNursery /\ [][NextNursery]_vars /\ WF_vars(ChildrenFinish)

StartEvent == InitEvent /\ IdleMutex /\ InitNursery /\ IdleComb /\ InitApi /\ InitSync /\ InitStop /\ IdleSignal /\ IdleTask /\ IdleGen /\ IdleAGen /\ InitLock /\ InitPassed
SpecEvent == StartEvent /\ [][NextEvent]_vars

StartComb == InitComb /\ IdleMutex /\ InitNursery /\ InitEvent /\ InitApi /\ InitSync /\ InitStop /\ IdleSignal /\ IdleTask /\ IdleGen /\ IdleAGen /\ InitLock /\ InitPassed
SpecComb == StartComb /\ [][NextComb]_vars

StartApi == InitApi /\ IdleMutex /\ InitNursery /\ InitEvent /\ IdleComb /\ InitSync /\ InitStop /\ IdleSignal /\ IdleTask /\ IdleGen /\ IdleAGen /\ InitLock /\ InitPassed
SpecApi == StartApi /\ [][NextApi]_vars

StartSync == InitSync /\ IdleMutex /\ InitNursery /\ InitEvent /\ IdleComb /\ InitApi /\ InitStop /\ IdleSignal /\ IdleTask /\ IdleGen /\ IdleAGen /\ InitLock /\ InitPassed
SpecSync == StartSync /\ [][NextSync]_vars /\ WF_vars(SetterSteps) /\ WF_vars(WaiterSteps)

StartStop == InitStop /\ IdleMutex /\ InitNursery /\ InitEvent /\ IdleComb /\ InitApi /\ InitSync /\ IdleSignal /\ IdleTask /\ IdleGen /\ IdleAGen /\ InitLock /\ InitPassed
SpecStop == StartStop /\ [][NextStop]_vars

StartSignal == InitSignal /\ IdleMutex /\ InitNursery /\ InitEvent /\ IdleComb /\ InitApi /\ InitSync /\ InitStop /\ IdleTask /\ IdleGen /\ IdleAGen /\ InitLock /\ InitPassed
SpecSignal == StartSignal /\ [][NextSignal]_vars

StartTask == InitTask /\ IdleMutex /\ InitNursery /\ InitEvent /\ IdleComb /\ InitApi /\ InitSync /\ InitStop /\ IdleSignal /\ IdleGen /\ IdleAGen /\ InitLock /\ InitPassed
SpecTask == StartTask /\ [][NextTask]_vars

StartGen == InitGen /\ IdleMutex /\ InitNursery /\ InitEvent /\ IdleComb /\ InitApi /\ InitSync /\ InitStop /\ IdleSignal /\ IdleTask /\ IdleAGen /\ InitLock /\ InitPassed
SpecGen == StartGen /\ [][NextGen]_vars

StartAGen == InitAGen /\ IdleMutex /\ InitNursery /\ InitEvent /\ IdleComb /\ InitApi /\ InitSync /\ InitStop /\ IdleSignal /\ IdleTask /\ IdleGen /\ InitLock /\ InitPassed
SpecAGen == StartAGen /\ [][NextAGen]_vars

StartLock == InitLock /\ IdleMutex /\ InitNursery /\ InitEvent /\ IdleComb /\ InitApi /\ InitSync /\ InitStop /\ IdleSignal /\ IdleTask /\ IdleGen /\ IdleAGen /\ InitPassed
SpecLock == StartLock /\ [][NextLock]_vars

\* the coroutines that hold the lock: from the acquisition to the hand-off
Holding(c) == mpc[c] \in {"owner", "write", "unlock", "tu_cas"}

(***************************************************************************)
(* C1: mutual exclusion of when_locked / unique_lock.  At most one          *)
(* coroutine is between the acquisition of the lock and its release, the   *)
(* mutex is never unlocked twice, and when all K coroutines have run their  *)
(* C rounds the shared counter equals K*C (no lost update), with the        *)
(* sync_scheduler and with the thread pool scheduler.                       *)
(***************************************************************************)
C1_MutualExclusion ==
    /\ Cardinality({c \in Coros : Holding(c)}) <= 1
    /\ \A c \in Coros : mpc[c] # "aborted"
    /\ (\A c \in Coros : mpc[c] = "done") => shared = MaxCoros * Rounds

\* the last increment was made by a coroutine that had queued on the held
\* mutex (its next was locked) and was handed the lock
C1_Witness ==
    \E c \in Coros :
        /\ mpc[c] = "unlock"
        /\ lockNext[c] = locked
        /\ shared = MaxCoros * Rounds
        /\ \A d \in Coros \ {c} : mpc[d] = "done"

(***************************************************************************)
(* C2: the coroutine awaiting a nursery_task is resumed only after the     *)
(* body has reached its final suspend and every child started through      *)
(* nursery.start() has finished, whatever the interleaving of the child     *)
(* completions with the body.                                              *)
(***************************************************************************)
C2_StructuredScope ==
    nresumed > 0 =>
        /\ npc = "final"
        /\ \A k \in Children : child[k] \in {"unstarted", "done"}

\* the awaiter was resumed and took the result after the body and all
\* children, one of which had suspended, were done
C2_Witness ==
    /\ nresumed = 1
    /\ nout = "value"
    /\ \A k \in Children : child[k] = "done"
    /\ child_counter_ = 0 - 1

(***************************************************************************)
(* C3: whatever the interleaving of the sender's set_value, set_exception  *)
(* or drop with the awaiter's await_ready, await_suspend and await_resume,  *)
(* the awaiter gets the deposited value, the deposited exception or the     *)
(* no-sender error, and await_resume never reads a payload slot that is     *)
(* empty or being written.                                                 *)
(***************************************************************************)
C3_EventOutcome ==
    /\ apc # "bad_resume"
    /\ apc = "done" =>
        /\ aout \in {"value", "exception", "no_sender"}
        /\ aout \in {"value", "exception"} => (skind = aout /\ value_ = aout)
        /\ aout = "no_sender" => skind \in {"none", "sender_deleted"}

\* the awaiter suspended, was resumed by set_value and read the value
C3_Witness ==
    /\ apc = "done"
    /\ aout = "value"
    /\ eresumes = 1

\* the tasks in the order in which their outcomes were recorded
Recorded(kinds) == SelectSeq(order, LAMBDA i : tres[i] \in kinds)

Failures == {"exception", "error"}

(***************************************************************************)
(* C4: if a task of a when_all fails (an exception, or an error value with *)
(* rich errors), the parent gets an error from await_resume, and when a     *)
(* stop_source was supplied stop was requested before the parent is         *)
(* resumed.                                                                *)
(***************************************************************************)
C4_WhenAllFailure ==
    (comb = "all" /\ \E i \in Tasks : tres[i] \in Failures) =>
        /\ (presumed > 0 /\ hasStop) => stopReq
        /\ ppc = "done" => pout.kind \in Failures

\* a when_all with a stop_source whose parent got the error value of a failed
\* task while another task had succeeded
C4_Witness ==
    /\ comb = "all" /\ hasStop /\ stopReq
    /\ ppc = "done" /\ pout.kind = "error"
    /\ \E i \in Tasks : tres[i] = "value"

(***************************************************************************)
(* C5: when at least one task of a when_any succeeds, the parent gets one   *)
(* winning index, the index of the task whose success was recorded first,   *)
(* and with it the value that this task produced.                           *)
(***************************************************************************)
C5_WhenAnyWinner ==
    (comb = "any" /\ ppc = "done" /\ \E i \in Tasks : tres[i] = "value") =>
        /\ pout.kind = "winner"
        /\ pout.idx = Head(Recorded({"value"}))
        /\ pout.vals = <<tvalue[pout.idx]>>

\* the winner is not the first task of the input, it completed after a
\* failure, and a task that succeeded later produced another value
C5_Witness ==
    /\ comb = "any" /\ ppc = "done" /\ pout.kind = "winner"
    /\ pout.idx > 0
    /\ Len(order) >= 3
    /\ tres[Head(order)] \in Failures
    /\ \E j \in Tasks : tres[j] = "value" /\ tvalue[j] # tvalue[pout.idx]

(***************************************************************************)
(* C6: when_all_complete starts every task whatever the earlier outcomes,   *)
(* resumes the parent only after all N tasks are at their final suspend,    *)
(* and returns one slot per task in input order, ok(value) or err of that   *)
(* task; awaiting it never raises.                                          *)
(***************************************************************************)
C6_WhenAllComplete ==
    comb = "complete" =>
        /\ ppc \in {"suspended", "resume", "done"} =>
               \A i \in Tasks : tpc[i] # "created"
        /\ presumed > 0 => \A i \in Tasks : tpc[i] \notin {"created", "running"}
        /\ ppc = "done" =>
               /\ pout.kind = "results"
               /\ Len(pout.vals) = ntasks
               /\ \A i \in Tasks :
                      /\ pout.vals[i + 1].ok = (tres[i] = "value")
                      /\ pout.vals[i + 1].val = tvalue[i]

\* three tasks, the first failed, a later one succeeded, completed out of
\* input order
C6_Witness ==
    /\ comb = "complete" /\ ppc = "done" /\ ntasks >= 3
    /\ tres[0] = "exception"
    /\ \E i \in Tasks : tres[i] = "value"
    /\ Head(order) # 0

(***************************************************************************)
(* C7: when_all and when_any resume the parent once, and only after every   *)
(* task that was started, the last one included, has reached its final      *)
(* suspend, even when the outcome was decided earlier.                      *)
(***************************************************************************)
C7_ResumeAfterAllStarted ==
    comb \in {"all", "any"} =>
        /\ presumed <= 1
        /\ ppc # "bad_resume"
        /\ presumed > 0 => \A i \in Tasks : tpc[i] # "running"

\* the parent was resumed after all tasks were started, the outcome having
\* been decided by the task that completed first
C7_Witness ==
    /\ comb \in {"all", "any"} /\ presumed = 1 /\ ntasks >= 3
    /\ \A i \in Tasks : tpc[i] = "done"
    /\ Len(order) = ntasks
    /\ IF comb = "all" THEN first_failed = Head(order)
                       ELSE first_completed = Head(order)
    /\ Head(order) # ntasks - 1

\* await_suspend took the short-circuit after start(pidx)
ShortCircuited ==
    /\ ppc \in {"skip", "suspended", "resume", "done"}
    /\ pidx < ntasks - 1

(***************************************************************************)
(* C8: in when_all the tasks are started in index order; when right after   *)
(* start(i), i < N-1, a task of index <= i has failed, no task of index > i *)
(* is ever started, and the parent is resumed once the started tasks have   *)
(* finished.                                                                *)
(***************************************************************************)
C8_ShortCircuit ==
    /\ [](comb = "all" =>
            /\ \A i, j \in Tasks : (i < j /\ tpc[j] # "created") => tpc[i] # "created"
            /\ ShortCircuited => \A j \in Tasks : j > pidx => tpc[j] = "created"
            /\ (ShortCircuited /\ ppc # "skip" /\ \A j \in Tasks : j <= pidx => tpc[j] = "done")
                   => presumed = 1)
    /\ [][(comb = "all" /\ ppc = "check" /\ first_failed <= pidx /\ ppc' # ppc)
              => ppc' = "skip"]_vars

\* the second of three tasks failed while the first was still running; the
\* third was never started and the parent got the exception
C8_Witness ==
    /\ comb = "all" /\ ntasks >= 3 /\ pidx = 1
    /\ ppc = "done" /\ presumed = 1
    /\ Head(order) = 1
    /\ tres[0] = "value"
    /\ tpc[2] = "created"
    /\ pout.kind = "exception"

(***************************************************************************)
(* C9: when several tasks of a when_all fail, the parent gets the error of  *)
(* the task that failed first in completion order, whatever the positions   *)
(* of the tasks in the input.                                               *)
(***************************************************************************)
C9_FirstFailureWins ==
    (comb = "all" /\ ppc = "done" /\ \E i \in Tasks : tres[i] \in Failures) =>
        /\ pout.kind \in Failures
        /\ pout.idx = Head(Recorded(Failures))

(***************************************************************************)
(* C10: when every task of a when_all succeeds, the result holds the value  *)
(* of task i at position i, whatever the completion order, and a supplied   *)
(* stop_source is not signalled.                                            *)
(***************************************************************************)
C10_AllSucceed ==
    (comb = "all" /\ ppc = "done" /\ \A i \in Tasks : tres[i] = "value") =>
        /\ pout.kind = "values"
        /\ Len(pout.vals) = ntasks
        /\ \A i \in Tasks : pout.vals[i + 1] = tvalue[i]
        /\ ~stopReq

\* three tasks with a stop_source, completed out of input order with
\* different values
C10_Witness ==
    /\ comb = "all" /\ ppc = "done" /\ hasStop /\ ntasks >= 3
    /\ \A i \in Tasks : tres[i] = "value"
    /\ Head(order) # 0
    /\ tvalue[0] # tvalue[1]
    /\ pout.kind = "values"

(***************************************************************************)
(* C11: in when_any with a stop_source, stop is requested by the task that  *)
(* succeeds first and by no other, and whenever a winner exists stop was    *)
(* requested before the parent is resumed.                                  *)
(***************************************************************************)
C11_WhenAnyStop ==
    (comb = "any" /\ hasStop) =>
        /\ \A i \in Tasks : tpc[i] = "stop" => (i = first_completed /\ tres[i] = "value")
        /\ stopReq => (first_completed < ntasks /\ tpc[first_completed] \in {"dec", "done"})
        /\ (presumed > 0 /\ first_completed < ntasks) => stopReq

\* the parent got a winner that had completed after a failure and before
\* another success, with stop requested
C11_Witness ==
    /\ comb = "any" /\ hasStop /\ stopReq
    /\ ppc = "done" /\ pout.kind = "winner"
    /\ Len(order) >= 3
    /\ tres[order[1]] \in Failures
    /\ order[2] = pout.idx
    /\ tres[order[3]] = "value"

(***************************************************************************)
(* C12: if every task of a when_any fails, the parent gets the error or     *)
(* exception of the task that failed first in completion order.             *)
(***************************************************************************)
C12_WhenAnyAllFail ==
    (comb = "any" /\ ppc = "done" /\ ntasks > 0 /\ \A i \in Tasks : tres[i] \in Failures) =>
        /\ pout.idx = Head(order)
        /\ pout.kind = tres[Head(order)]

\* three failed tasks, the one that failed first being neither the first nor
\* the last of the input, and a later failure of another kind
C12_Witness ==
    /\ comb = "any" /\ ppc = "done" /\ ntasks >= 3
    /\ \A i \in Tasks : tres[i] \in Failures
    /\ Head(order) = 1
    /\ pout.kind = "error"
    /\ tres[order[Len(order)]] = "exception"

\* the sequence of task indices is increasing
Increasing(q) == \A a, b \in 1..Len(q) : a < b => q[a] < q[b]

(***************************************************************************)
(* C13: in when_any the tasks are started in index order; when right after  *)
(* start(i), i < N-1, a task of index <= i has succeeded, no task of index  *)
(* > i is ever started and the parent is resumed once the started tasks     *)
(* have finished; when the tasks complete one after the other in input      *)
(* order (as they do when each completes inside start), the winner is the   *)
(* successful task of lowest index.                                         *)
(***************************************************************************)
C13_WhenAnyShortCircuit ==
    /\ [](comb = "any" =>
            /\ \A i, j \in Tasks : (i < j /\ tpc[j] # "created") => tpc[i] # "created"
            /\ ShortCircuited =>
                   /\ first_completed <= pidx
                   /\ \A j \in Tasks : j > pidx => tpc[j] = "created"
            /\ (ShortCircuited /\ ppc # "skip" /\ \A j \in Tasks : j <= pidx => tpc[j] = "done")
                   => presumed = 1
            /\ (ppc = "done" /\ Increasing(order) /\ \E i \in Tasks : tres[i] = "value")
                   => (pout.kind = "winner" /\ pout.idx = Min({i \in Tasks : tres[i] = "value"})))
    /\ [][(comb = "any" /\ ppc = "check" /\ first_completed <= pidx /\ ppc' # ppc)
              => ppc' = "skip"]_vars

\* the first task failed and the second succeeded, each inside its start;
\* the third was never started and the second is the winner
C13_Witness ==
    /\ comb = "any" /\ ntasks >= 3 /\ pidx = 1
    /\ ppc = "done" /\ presumed = 1
    /\ order = <<0, 1>>
    /\ tres[0] \in Failures
    /\ tpc[2] = "created"
    /\ pout.kind = "winner" /\ pout.idx = 1

(***************************************************************************)
(* C14: awaiting when_any over an empty range does not suspend the parent   *)
(* and fails with the "no tasks" error.                                     *)
(***************************************************************************)
C14_WhenAnyEmpty ==
    (comb = "any" /\ form = "range" /\ ntasks = 0) =>
        /\ ppc \in {"init", "resume", "done"}
        /\ presumed = 0
        /\ ppc = "done" => pout.kind = "no_tasks"

\* the await of the empty range has completed
C14_Witness ==
    /\ comb = "any" /\ form = "range" /\ ntasks = 0
    /\ ppc = "done" /\ pout.kind = "no_tasks"

\* the children that were counted by child_started and have not finished
LiveChildren == {k \in Children : child[k] \in {"counted", "inline", "suspended"}}

(***************************************************************************)
(* C15 as stated: the child counter of the nursery promise is >= 0 in every *)
(* reachable state.                                                         *)
(***************************************************************************)
C15_CounterNonNegative == child_counter_ >= 0

(***************************************************************************)
(* C15 amended: the child counter is the number of started, unfinished      *)
(* children, less one once the body has reached its final suspend; it is    *)
(* never below -1, and it is -1 exactly when the awaiter has been resumed.  *)
(***************************************************************************)
C15_CounterBounds ==
    /\ child_counter_ = Cardinality(LiveChildren) - (IF npc = "final" THEN 1 ELSE 0)
    /\ child_counter_ >= 0 - 1
    /\ (child_counter_ = 0 - 1) <=> (nresumed = 1)
    /\ nresumed <= 1

\* the last child finished after the body: its child_completed took the
\* counter from 0 to -1 and the awaiter, resumed, has not yet run
C15_Witness ==
    /\ child_counter_ = 0 - 1
    /\ npc = "final"
    /\ nresumed = 1
    /\ nout = "pending"
    /\ \E k \in Children : child[k] = "done"

(***************************************************************************)
(* C16: an exception of the nursery body is stored and rethrown to the      *)
(* awaiter only after all children have completed; an exception of a child  *)
(* is discarded: it never reaches the awaiter, and the child's completion   *)
(* is counted all the same.                                                 *)
(***************************************************************************)
C16_NurseryExceptions ==
    /\ [](nout # "pending" =>
            /\ nout = nresult
            /\ npc = "final"
            /\ \A k \in Children : child[k] \in {"unstarted", "done"})
    /\ []((npc = "final" /\ LiveChildren = {}) => nresumed = 1)
    /\ [][nresult' # nresult => (npc = "running" /\ npc' = "final")]_vars

\* the body threw and so did a child, another child finished normally, and
\* the awaiter got the exception stored by the body after all of them
C16_Witness ==
    /\ nout = "exception"
    /\ nresult = "exception"
    /\ \E k \in Children : child[k] = "done" /\ childThrew[k]
    /\ \E k \in Children : child[k] = "done" /\ ~childThrew[k]
    /\ child_counter_ = 0 - 1

\* try_lock(&node of c) has returned and left the node on the waiter stack
Pushed(c) == lret[c] \notin {nothing, unlocked}

(***************************************************************************)
(* C17: try_lock(cur) returns unlocked exactly when the head word was       *)
(* unlocked at the instant its compare-exchange succeeded, and then the     *)
(* head becomes locked; in every other case cur becomes the head and        *)
(* cur.next, which is returned, holds the previous head: locked for the     *)
(* first waiter, else the waiter queued before.  A failed compare-exchange  *)
(* changes nothing but cur.next, whatever try_lock and try_unlock calls     *)
(* run concurrently.                                                        *)
(***************************************************************************)
C17_TryLock ==
    /\ [](list_ \notin {unlocked, locked} => Pushed(CoroOf(list_)))
    /\ [][\A c \in Coros :
            /\ (rpc[c] = "tl_cas" /\ rpc'[c] = "idle") =>
                   /\ (lret'[c] = unlocked) <=> (list_ = unlocked)
                   /\ list_ = unlocked => list_' = locked
                   /\ list_ # unlocked =>
                          /\ list_' = NodeOf(c)
                          /\ next'[c] = list_
                          /\ lret'[c] = list_
            /\ (rpc[c] = "tl_cas" /\ rpc'[c] = "tl_cas" /\ next'[c] # next[c]) =>
                   /\ list_' = list_
                   /\ next'[c] = list_]_vars

\* a try_lock whose compare-exchange had failed queued its node behind the
\* node of another waiter
C17_Witness ==
    \E c, d \in Coros :
        /\ c # d
        /\ retried[c] /\ Pushed(c)
        /\ lret[c] = NodeOf(d)
        /\ next[c] = NodeOf(d)
        /\ list_ = NodeOf(c)

(***************************************************************************)
(* C18: try_unlock is determined by the head word at its successful         *)
(* compare-exchange: with the head locked it sets the head to unlocked and  *)
(* returns locked; with a waiter stack it sets the head to locked and       *)
(* returns the former head, the most recently queued waiter (no queued      *)
(* node points to it); with the head unlocked the program aborts.           *)
(***************************************************************************)
C18_TryUnlock ==
    [][\A c \in Coros :
         (rpc[c] = "tu_cas" /\ rpc'[c] # "tu_cas") =>
             CASE list_ = unlocked -> rpc'[c] = "aborted"
               [] list_ = locked ->
                      /\ rpc'[c] = "idle"
                      /\ list_' = unlocked
                      /\ uret'[c] = locked
               [] OTHER ->
                      /\ rpc'[c] = "idle"
                      /\ list_' = locked
                      /\ uret'[c] = list_
                      /\ \A d \in Coros : Pushed(d) => next[d] # list_]_vars

\* one try_unlock returned the head of the waiter stack, a second returned
\* locked and freed the mutex, a third aborted
C18_Witness ==
    \E c, d, e \in Coros :
        /\ uret[c] \notin {nothing, unlocked, locked}
        /\ uret[d] = locked
        /\ rpc[e] = "aborted"

\* the waiter whose node n is, when n is the node of a waiter
WaiterAt(n) == IF n \in {unlocked, locked} THEN 0 ELSE n - locked

(***************************************************************************)
(* C19 as stated: waiters that queue on a held mutex are handed the lock in *)
(* FIFO order: a coroutine is never resumed as lock owner while the waiter  *)
(* that was queued just before it (its node's next) is still waiting.       *)
(***************************************************************************)
C19_FifoHandOff ==
    \A t \in Coros :
        (mpc[t] = "owner" /\ WaiterAt(next[t]) # 0) => mpc[WaiterAt(next[t])] # "waiting"

(***************************************************************************)
(* C19 amended: the hand-off is LIFO.  try_unlock hands the lock to the     *)
(* head of the stack, the most recently queued waiter; a coroutine resumed  *)
(* from the stack becomes owner while the waiter queued just before it is   *)
(* still waiting, and hands the lock to that waiter when it unlocks.        *)
(***************************************************************************)
C19_LifoHandOff ==
    /\ [](\A t \in Coros :
            /\ (mpc[t] = "owner" /\ WaiterAt(next[t]) # 0) =>
                   mpc[WaiterAt(next[t])] = "waiting"
            /\ (mpc[t] \in {"write", "unlock"} /\ WaiterAt(lockNext[t]) # 0) =>
                   mpc[WaiterAt(lockNext[t])] = "waiting")
    /\ [][\A t \in Coros :
            /\ (mpc[t] = "waiting" /\ mpc'[t] = "owner") =>
                   \E c \in Coros :
                       \/ mpc[c] = "unlock" /\ lockNext[c] = NodeOf(t)
                       \/ /\ mpc[c] = "tu_ret" /\ last[c] = NodeOf(t)
                          /\ \A w \in Coros : mpc[w] = "waiting" => next[w] # NodeOf(t)
            /\ (mpc[t] = "unlock" /\ WaiterAt(lockNext[t]) # 0 /\ mpc'[t] # "unlock") =>
                   mpc'[WaiterAt(lockNext[t])] = "owner"]_vars

\* B, queued after A, was handed the lock by try_unlock and A still waits
C19_Witness ==
    \E a, b \in Coros :
        /\ a # b
        /\ mpc[b] = "owner" /\ next[b] = NodeOf(a)
        /\ mpc[a] = "waiting" /\ next[a] = locked
        /\ list_ = locked

\* the sender is gone, or was never there, and nothing was set through it
NoSenderNoPayload == spc \in {"none", "gone"} /\ skind \in {"none", "sender_deleted"}

(***************************************************************************)
(* C20: an awaiter of a single_event that has no payload and no sender      *)
(* never stays suspended.  With no sender attached, or the sender dropped   *)
(* before await_ready, the await does not suspend; a sender dropped without *)
(* a set while the awaiter is suspended resumes it, once; in all these      *)
(* cases the awaiter gets single_event_error, however the drop interleaves  *)
(* with await_ready and await_suspend.                                      *)
(***************************************************************************)
C20_NoSenderNoSuspend ==
    /\ [](NoSenderNoPayload =>
            /\ apc \notin {"suspended", "bad_resume"}
            /\ apc = "done" => aout = "no_sender"
            /\ eresumes = (IF skind = "sender_deleted" THEN 1 ELSE 0))
    /\ []((spc = "none" /\ apc # "init") => apc \in {"resume", "done"})
    /\ [][(apc = "init" /\ apc' # "init" /\ has_sender \notin state_ /\ has_value \notin state_)
              => apc' = "resume"]_vars

\* the sender was dropped while the awaiter was suspended: the awaiter was
\* resumed by release_sender and got the no-sender error
C20_Witness ==
    /\ spc = "gone" /\ skind = "sender_deleted"
    /\ eresumes = 1
    /\ apc = "done" /\ aout = "no_sender"

(***************************************************************************)
(* C21: after the sender has deposited a value or an exception, a further   *)
(* set_value or set_exception on it throws single_event_error and changes   *)
(* nothing: the awaiter still gets the payload deposited first.             *)
(***************************************************************************)
C21_DoubleSet ==
    /\ []((sthrown /\ apc = "done") => (aout = skind /\ value_ = skind))
    /\ [][sthrown' # sthrown =>
              /\ spc = "set" /\ sthrown'
              /\ UNCHANGED <<state_, value_, waiting_, spc, skind, apc, aout, eresumes>>]_vars

\* the second set was refused while the awaiter was suspended on the first
\* payload, which it then got
C21_Witness ==
    /\ sthrown
    /\ apc = "done" /\ eresumes = 1
    /\ aout = "exception" /\ skind = "exception"

(***************************************************************************)
(* C22: get_sender() on a single_event whose has_sender bit is set fails    *)
(* with a single_event_error that reaches the caller; the program goes on   *)
(* and the first sender keeps its entitlement.                              *)
(***************************************************************************)
C22_DoubleAttachError == again \in {"none", "thrown"}

(***************************************************************************)
(* C23: sync_wait returns on the calling thread what the wrapped task      *)
(* stored (its value, or its exception rethrown), and only after the task  *)
(* reached its final suspend and the completion signal was fully raised;   *)
(* the caller is never left blocked in wait once the signal was raised,    *)
(* whether the task finished inside start or later on another thread, and  *)
(* a finished task always leads to sync_wait returning.                    *)
(***************************************************************************)
C23_SyncWait ==
    /\ [](wpc \in {"result", "returned"} =>
             /\ kpc = "done" /\ signaled_ /\ kresult \in Results)
    /\ [](wpc = "returned" => wout = kresult)
    /\ [](kpc = "done" => wpc # "blocked")
    /\ (kpc = "final" ~> wpc = "returned")

\* the task suspended, the caller blocked in wait (and once woke for
\* nothing), a worker finished the task with an exception and sync_wait
\* rethrew it
C23_Witness ==
    /\ wpc = "returned"
    /\ kthread = "worker"
    /\ spurious = 1
    /\ wout = <<"exception", 0>>

(***************************************************************************)
(* C24: a coroutine awaiting when_stopped goes on exactly once and only    *)
(* after stop was requested.  With stop requested before await_ready it    *)
(* does not suspend.  Otherwise exactly one of the two happens: either     *)
(* await_suspend declines to suspend or the stop callback resumes the      *)
(* continuation.  Never both: it goes on at most once, in one way.  Never  *)
(* neither: it is not left suspended once stop was requested and no        *)
(* callback is still running.                                              *)
(***************************************************************************)
C24_WhenStopped ==
    /\ [](hcont <= 1 /\ Cardinality(how) = hcont)
    /\ [](hpc \in {"continued", "finished"} <=> hcont = 1)
    /\ [](hcont = 1 => stopped)
    /\ []((hpc = "suspended" /\ stopped)
             => \E q \in Stoppers : qpc[q] = "callback")
    /\ []((stopped /\ hpc = "finished" /\ \A q \in Stoppers : qpc[q] = "done")
             => \/ how = {"ready"} /\ race_flag_ = 0
                \/ how \in {{"declined"}, {"callback"}} /\ race_flag_ = 2)
    /\ [][(hpc = "start" /\ stopped /\ hpc' # hpc) => how' = {"ready"}]_vars

\* request_stop ran between the registration of the callback and the
\* counter bump of await_suspend: the callback counted first and did not
\* resume, await_suspend counted second and declined to suspend
C24_Witness ==
    /\ how = {"declined"}
    /\ callback_ = "invoked"
    /\ race_flag_ = 2
    /\ \E q \in Stoppers : qpc[q] = "done"

(***************************************************************************)
(* C25: while one when_signal awaiter is pending, another awaiter that     *)
(* reaches await_suspend fails with a runtime error: it does not become    *)
(* pending, starts no thread, installs no handler and leaves the slot and  *)
(* the flag of the pending awaiter as they are.                            *)
(***************************************************************************)
C25_SecondAwaiterFails ==
    [][\A b \in Awaiters :
          (/\ gpc[b] = "suspend" /\ gpc'[b] # "suspend"
           /\ \E a \in Awaiters \ {b} : gpc[a] = "pending")
          => /\ gpc'[b] = "threw"
             /\ UNCHANGED <<interrupt_flag, my_flag, handler, jpc>>]_vars

(***************************************************************************)
(* C26: the body of a task does not execute before the task is awaited: a  *)
(* task that is dropped without being awaited never ran and stored          *)
(* nothing.  Once it is awaited, the awaiting coroutine is resumed exactly *)
(* once, only after the body reached its final suspend, and co_await then  *)
(* gives what the task stored: its value, or its exception rethrown.       *)
(***************************************************************************)
C26_LazyTask ==
    \A i \in 1..MaxDepth :
        /\ ran[i] => awaited[i]
        /\ ~awaited[i] => result_[i] = NoResult
        /\ resumes[i - 1] <= 1
        /\ resumes[i - 1] = 1 <=>
               awaited[i] /\ cpc[i] \in {"final", "destroyed"}
        /\ cpc[i - 1] = "resumed" => cpc[i] = "final" /\ result_[i] \in Results
        /\ got[i - 1] # NoResult =>
               resumes[i - 1] = 1 /\ got[i - 1] = result_[i] /\ cpc[i] = "destroyed"

\* task 1 suspended on something else, was resumed from outside, made
\* task 2 and dropped it unawaited (so task 2 never ran), and ended with
\* an exception that coroutine 0 got from its co_await
C26_Witness ==
    /\ klen >= 2
    /\ cpc[0] = "done" /\ resumes[0] = 1
    /\ got[0] = <<"exception", 0>>
    /\ ext[1]
    /\ cpc[2] = "destroyed" /\ ~awaited[2] /\ ~ran[2]

(***************************************************************************)
(* C29: awaiting a chain of nested tasks takes no more call stack however  *)
(* long the chain is: entering a child task and returning from its final   *)
(* suspend to the parent are symmetric transfers, which pass control from  *)
(* one coroutine to the other without a new resume() frame, so there is    *)
(* never more than the one resume() frame that started the chain.          *)
(***************************************************************************)
C29_StackDepth ==
    /\ [](depth \in {0, 1})
    /\ [][(current # noop /\ current' # noop /\ current' # current)
              => depth' = depth]_vars

\* the innermost task of the longest chain is running, every coroutine
\* above it is suspended in its co_await, and one resume() frame is on the
\* stack
C29_Witness ==
    /\ klen = MaxDepth
    /\ current = klen /\ cpc[klen] = "after"
    /\ \A i \in 0..(klen - 1) : cpc[i] = "awaiting"
    /\ depth = 1

(***************************************************************************)
(* C27: iterating a generator whose producer yields the finite sequence S  *)
(* with begin(), reads and increments up to the end sentinel gives exactly *)
(* S in order: what was read so far is always the prefix of S that was     *)
(* yielded, and at the end it is S.  The iterator compares equal to the    *)
(* sentinel exactly when the producer is at its final suspend, so for an   *)
(* empty producer begin() is already equal to end() and nothing is read.   *)
(***************************************************************************)
C27_GeneratorOrder ==
    /\ [](/\ Len(yout) <= Len(yseq)
          /\ yout = SubSeq(yseq, 1, Len(yout))
          /\ Len(yout) = IF ipc \in {"none", "compare", "read"} /\ ~ydone
                           THEN ypos - (IF ypos = 0 THEN 0 ELSE 1)
                           ELSE ypos)
    /\ [](ipc = "ended" => (ydone /\ ~ythrow /\ yout = yseq))
    /\ [](ipc = "read" => (~ydone /\ yvalue = Len(yout) + 1))
    /\ [][(ipc = "compare" /\ ipc' # ipc) => (ipc' = "ended" <=> ydone)]_vars
    /\ []((yseq = <<>> /\ ~ythrow /\ ipc # "none")
             => (ydone /\ ipc \in {"compare", "ended"} /\ yout = <<>>))

\* the loop over a producer of three elements, two of them equal, has
\* ended with the three elements read in order
C27_Witness ==
    /\ ipc = "ended"
    /\ yseq = <<7, 8, 7>>
    /\ yout = <<7, 8, 7>>

(***************************************************************************)
(* C28: for an async_generator whose producer yields the sequence S, the   *)
(* k-th co_await gen.next() gives a result with a value, the k-th element  *)
(* of S, for k up to the length of S, with one yield per call; the call    *)
(* during which the producer ends gives a result without a value, or       *)
(* rethrows the exception of the producer when it ended with one, and      *)
(* that in the very call during which it was thrown; later calls give a    *)
(* result without a value.  The producer runs, and yields, only while a    *)
(* next() call is suspended waiting for it.                                *)
(***************************************************************************)
C28_AsyncGenerator ==
    /\ [](\A k \in 1..Len(bres) :
             bres[k] = IF k <= Len(aseq) THEN <<"value", aseq[k]>>
                       ELSE IF k = Len(aseq) + 1 /\ athrow THEN <<"exception", 0>>
                       ELSE <<"end", 0>>)
    /\ [](\A k \in 1..Len(bres) : bres[k] = <<"exception", 0>> <=> k = threwAt)
    /\ [](bpos <= calls /\ Len(bres) <= calls /\ calls <= Len(bres) + 1)
    /\ [](bpc \in {"running", "external"} => (xpc = "suspended" /\ calls = Len(bres) + 1))
    /\ [][bpos' # bpos => (xpc = "suspended" /\ bpos' = bpos + 1 /\ bpos' = calls)]_vars

\* the producer yielded 8 and 7 and then threw during the third next():
\* the consumer got 8, 7, the exception, and an empty result from the
\* call after it
C28_Witness ==
    /\ aseq = <<8, 7>>
    /\ athrow /\ threwAt = 3
    /\ bres = <<(<<"value", 8>>), (<<"value", 7>>), (<<"exception", 0>>), (<<"end", 0>>)>>

\* the tasks whose on_ready has done its fetch_sub
Decremented == {i \in Tasks : tpc[i] = "done"}

\* the tasks await_suspend has started and whose on_ready has not yet
\* done its fetch_sub
InFlight == {i \in Tasks : tpc[i] \in {"running", "stop", "dec"}}

\* await_suspend has done its bulk fetch_sub for the skipped tasks
Skipped == IF ppc \in {"init", "loop", "check", "skip"} \/ pidx >= ntasks - 1
             THEN 0
             ELSE ntasks - pidx - 1

(***************************************************************************)
(* C30: in when_all and when_any, tuple and range forms, the counter       *)
(* starts at N and is N less one for every task whose on_ready has         *)
(* decremented, less the number of skipped tasks once await_suspend has    *)
(* short-circuited.  However the completions interleave with               *)
(* await_suspend, the counter never goes below zero, never goes up, and    *)
(* the step that brings it to zero is the one and only step that resumes   *)
(* the parent: the parent is resumed at most once, only when it is         *)
(* suspended or by await_suspend itself, and it is not left suspended when *)
(* no started task is still to decrement.                                  *)
(***************************************************************************)
C30_CounterZeroOnce ==
    /\ [](comb \in {"all", "any"} =>
             /\ counter_ >= 0
             /\ counter_ = ntasks - Cardinality(Decremented) - Skipped
             /\ presumed <= 1
             /\ ppc # "bad_resume"
             /\ (presumed = 1 <=> (counter_ = 0 /\ ntasks > 0))
             /\ (ppc = "suspended" => InFlight # {}))
    /\ [][(comb \in {"all", "any"}) =>
             (/\ counter_' <= counter_
              /\ (presumed' = presumed + 1 <=> (counter_ > 0 /\ counter_' = 0))
              /\ presumed' \in {presumed, presumed + 1})]_vars

\* when_any over three tasks: the first task succeeded while await_suspend
\* was still running, await_suspend skipped the two others with its bulk
\* decrement, the first task decremented once, and the later of the two
\* decrements brought the counter to zero and resumed the parent
C30_Witness ==
    /\ comb = "any" /\ ntasks = 3
    /\ pidx = 0 /\ Skipped = 2
    /\ Decremented = {0}
    /\ tpc[1] = "created" /\ tpc[2] = "created"
    /\ counter_ = 0 /\ presumed = 1
    /\ ppc = "resume"

(***************************************************************************)
(* C31: when the unique_lock of a holder recorded a real successor (its    *)
(* next_ is neither unlocked nor locked), releasing it schedules exactly   *)
(* that successor, which was waiting and becomes the owner, and leaves the *)
(* head word of the mutex as it is; no other coroutine moves.  Only a      *)
(* holder whose next_ is unlocked or locked goes into try_unlock.          *)
(***************************************************************************)
C31_DirectHandOff ==
    /\ [][\A c \in Coros :
             (mpc[c] = "unlock" /\ mpc'[c] # "unlock") =>
                 IF lockNext[c] \notin {unlocked, locked}
                   THEN /\ list_' = list_
                        /\ mpc'[c] \in {"blocked", "unlock_end"}
                        /\ mpc[lockNext[c] - locked] = "waiting"
                        /\ mpc'[lockNext[c] - locked] = "owner"
                        /\ \A d \in Coros \ {c, lockNext[c] - locked} : mpc'[d] = mpc[d]
                   ELSE /\ mpc'[c] \in {"tu_cas", "unlock_end"}
                        /\ list_' = list_]_vars
    /\ [](\A c \in Coros :
             mpc[c] \in {"tu_cas", "tu_ret"} => lockNext[c] \in {unlocked, locked})

\* coroutine 1 released a lock whose next_ was the node of coroutine 2:
\* coroutine 2 owns the lock and the head word still holds a waiter node
C31_Witness ==
    /\ mpc[1] = "unlock_end" /\ lockNext[1] = NodeOf(2)
    /\ mpc[2] = "owner"
    /\ list_ \notin {unlocked, locked}

(***************************************************************************)
(* C32: nursery.start() counts the child before the child first runs, so   *)
(* a child that runs inside start() has been counted, and when it ends     *)
(* there, while the body is still running, its child_completed does not    *)
(* resume the awaiter of the nursery: nothing resumes the awaiter before   *)
(* the body has reached its final suspend, and a body that ends when no    *)
(* child is left resumes the awaiter itself.                               *)
(***************************************************************************)
C32_StartCountsFirst ==
    /\ [](\A k \in Children :
             child[k] = "inline" => (child_counter_ >= 1 /\ npc = "in_start"))
    /\ [](npc # "final" => nresumed = 0)
    /\ [][\A k \in Children :
             (child[k] = "inline" /\ child'[k] = "done") =>
                 (nresumed' = nresumed /\ npc' = "running" /\ child_counter_' >= 0)]_vars
    /\ [][(npc = "running" /\ npc' = "final") =>
             (nresumed' = (IF LiveChildren = {} THEN 1 ELSE 0))]_vars

\* the first child has ended while the body is still running: the counter
\* is back at zero and the awaiter has not been resumed
C32_Witness ==
    /\ child[1] = "done" /\ child[2] = "unstarted"
    /\ npc = "running"
    /\ child_counter_ = 0
    /\ nresumed = 0

(***************************************************************************)
(* C34: among the final suspend of the nursery body and the completions of *)
(* the children, exactly one child_completed call returns the continuation *)
(* of the awaiter: the last one.  The step that resumes the awaiter ends   *)
(* with the body at its final suspend and no child left, no                *)
(* child_completed call follows it, and the awaiter is resumed at most     *)
(* once, however the children finishing on other threads interleave with   *)
(* the body starting further children.                                     *)
(***************************************************************************)
C34_LastCompletionResumes ==
    /\ [](nresumed <= 1)
    /\ []((npc = "final" /\ \A k \in Children : child[k] \in {"unstarted", "done"})
             <=> nresumed = 1)
    /\ [][nresumed' # nresumed =>
             /\ nresumed' = nresumed + 1
             /\ child_counter_ = 0 /\ child_counter_' = 0 - 1
             /\ npc' = "final"
             /\ \A k \in Children : child'[k] \in {"unstarted", "done"}
             /\ \/ npc = "running"
                \/ \E k \in Children : child[k] = "suspended" /\ child'[k] = "done"]_vars
    /\ [][nresumed = 1 => (child_counter_' = child_counter_ /\ child' = child /\ npc' = npc)]_vars

\* the body started three children and ended with an exception, all
\* children are done, one of them with an exception, and the awaiter was
\* resumed once
C34_Witness ==
    /\ npc = "final"
    /\ \A k \in Children : child[k] = "done"
    /\ nresumed = 1
    /\ nresult = "exception"
    /\ \E k \in Children : childThrew[k]

(***************************************************************************)
(* C36: once the nursery body has reached its end, and given that every    *)
(* started child goes on to complete, the awaiter of the nursery is        *)
(* eventually resumed and gets the result; the final completion is not     *)
(* lost whether the body or a child is the last to finish.                 *)
(***************************************************************************)
C36_AwaiterEventuallyResumed ==
    /\ (npc = "final") ~> (nresumed = 1)
    /\ [](nresumed = 1 => ENABLED N_AwaitResume \/ nout # "pending")

\* the body has ended, its only child is done, and the awaiter was
\* resumed and took the value
C36_Witness ==
    /\ npc = "final"
    /\ nresumed = 1
    /\ child[1] = "done" /\ child[2] = "unstarted"
    /\ nout = "value"

(***************************************************************************)
(* C33: however await_suspend interleaves with set_value, set_exception    *)
(* or the drop of the sender, the awaiting coroutine goes on exactly once. *)
(* Either await_suspend does not suspend, and then the producer side never *)
(* resumes the continuation; or it suspends, and then the producer side    *)
(* resumes the stored continuation once, and only while the coroutine is   *)
(* suspended.  The coroutine is not left suspended once the producer side  *)
(* has finished its set or its drop.                                       *)
(***************************************************************************)
C33_ExactlyOneResume ==
    /\ [](eresumes <= 1 /\ apc # "bad_resume")
    /\ [](apc = "resume" => eresumes = 0)
    /\ [](apc = "resumed" => eresumes = 1)
    /\ [](apc = "suspended" =>
             (eresumes = 0 /\ waiting_ /\ has_awaiter \in state_ /\ spc \notin {"set", "gone"}))
    /\ [][eresumes' # eresumes =>
             (apc = "suspended" /\ apc' = "resumed" /\ eresumes' = eresumes + 1)]_vars
    /\ [][(apc = "fetch_or" /\ apc' # apc) =>
             (apc' = (IF has_value \in state_ \/ has_sender \notin state_
                        THEN "resume" ELSE "suspended"))]_vars

\* await_ready saw no value, the sender then completed its set_value
\* without seeing an awaiter, and await_suspend found the value and did
\* not suspend: the coroutine went on once, with the value
C33_Witness ==
    /\ apc = "done" /\ aout = "value"
    /\ waiting_ /\ has_awaiter \in state_
    /\ eresumes = 0
    /\ spc = "set"

(***************************************************************************)
(* C37: once the sender has deposited a value or an exception, the         *)
(* has_sender bit stays set, also after the sender object is destroyed, so *)
(* an await delivers the deposited payload and never the no-sender error.  *)
(***************************************************************************)
C37_SenderBitStays ==
    /\ []((spc \in {"set", "gone"} /\ skind \in {"value", "exception"}) =>
             (has_sender \in state_ /\ has_value \in state_ /\ value_ = skind))
    /\ []((apc = "done" /\ skind \in {"value", "exception"}) => aout = skind)
    /\ [][(has_sender \in state_ /\ has_sender \notin state_') =>
             (spc = "attached" /\ has_value \notin state_)]_vars

\* the sender set an exception and was destroyed; the await found the
\* event ready at once and rethrew the exception
C37_Witness ==
    /\ spc = "gone" /\ skind = "exception"
    /\ has_sender \in state_
    /\ apc = "done" /\ aout = "exception"
    /\ ~waiting_

(***************************************************************************)
(* C38: the reentrancy slot of when_signal is released only by the awaiter *)
(* that acquired it.  An awaiter that did not suspend, because its token   *)
(* was stop-requested at await_ready, leaves the slot as it is; while a    *)
(* signal wait is pending no other awaiter passes the gate; and the thread *)
(* of an awaiter resumes it only once its token is stopped or the signal   *)
(* was raised.                                                             *)
(***************************************************************************)
C38_SlotReleasedByOwner ==
    [][\A a \in Awaiters :
          /\ (gpc[a] = "resume" /\ gpc'[a] = "done" /\ jpc[a] = "none")
                => UNCHANGED reinterant_flag
          /\ (gpc[a] = "suspend" /\ gpc'[a] = "pending")
                => \A b \in Awaiters \ {a} : gpc[b] # "pending"
          /\ (jpc[a] = "handle" /\ jpc'[a] = "end")
                => (my_flag[a] \/ tstop[gtok[a]])]_vars

\* the unique_lock variables of locker c that own the mutex
Owning(c) == {s \in Slots : umutex_[c][s]}

(***************************************************************************)
(* C39: each acquisition of the mutex is released exactly once.  A locker  *)
(* that got the lock has made no release while exactly one of its          *)
(* unique_lock objects owns the mutex, and exactly one release once none   *)
(* does, whatever it unlocked, moved or destroyed; the mutex is never      *)
(* unlocked twice and no handle is scheduled that was not waiting.         *)
(* unlock() and the destructor of an object that owns nothing, because it  *)
(* was unlocked or moved from, leave the mutex and every locker as they    *)
(* are.                                                                    *)
(***************************************************************************)
C39_ReleasedOnce ==
    /\ [](~ubad)
    /\ [](\A c \in Lockers :
            /\ urel[c] <= 1
            /\ Cardinality(Owning(c)) + urel[c] = (IF upc[c] = "holding" THEN 1 ELSE 0)
            /\ \A s \in Slots :
                  /\ umutex_[c][s] => ualive[c][s]
                  /\ IsNode(unext_[c][s]) => umutex_[c][s])
    /\ [](Cardinality({c \in Lockers : Owning(c) # {} \/ upc[c] = "resume"})
             = (IF ulist = unlocked THEN 0 ELSE 1))
    /\ [][\A c \in Lockers, s \in Slots :
             ((U_Unlock(c, s) \/ U_Destroy(c, s)) /\ ~umutex_[c][s])
                => UNCHANGED <<ulist, upc, urel, ubad>>]_vars

\* locker 1 moved its lock from its first variable to its second and
\* unlocked the second: the first is in the moved-from state, the second in
\* the unlocked state, one release was made and it handed the mutex to
\* locker 2, which holds it now
C39_Witness ==
    /\ upc[1] = "holding" /\ urel[1] = 1
    /\ ualive[1][1] /\ ~umutex_[1][1] /\ unext_[1][1] = unlocked
    /\ ualive[1][2] /\ ~umutex_[1][2] /\ unext_[1][2] = locked
    /\ upc[2] = "holding" /\ Owning(2) # {}

(***************************************************************************)
(* C35: when every lock holder goes on to release its unique_lock, each    *)
(* coroutine that queued itself in try_lock is resumed as the owner; no    *)
(* handle is resumed that is not waiting, so a waiter is resumed once; and *)
(* a coroutine that queued itself after a waiter becomes the owner before  *)
(* that waiter at most once, so later arrivals do not keep overtaking it.  *)
(***************************************************************************)
C35_WaiterEventuallyOwner ==
    /\ \A c \in Coros : (mpc[c] = "waiting") ~> (mpc[c] = "owner")
    /\ [](~mbad)
    /\ [](\A c, d \in Coros : passed[c][d] <= 1 /\ passed[c][c] = 0)
    /\ [][\A c \in Coros :
             (mpc[c] = "waiting" /\ mpc'[c] # "waiting") => mpc'[c] = "owner"]_vars

\* coroutine 1 waits and coroutine 2, which queued itself after it with
\* coroutine 1 as its successor, has become the owner before it
C35_Witness ==
    /\ mpc[1] = "waiting"
    /\ passed[1][2] = 1
    /\ mpc[2] = "owner"
    /\ next[2] = NodeOf(1)

\* the parent has been resumed and await_resume reads the slots
AtAwaitResume == comb \in {"all", "any"} /\ ppc = "resume"

\* every slot that is read belongs to a task that was started and has
\* gone through on_ready, and holds a result
ReadsCompleted ==
    \A i \in ReadSlots : i \in Tasks /\ tpc[i] = "done" /\ tres[i] # "none"

\* when_all without a recorded failure gathers the values of all tasks,
\* which were all started and succeeded
AllValuesWhenAllSucceeded ==
    (comb = "all" /\ first_failed = ntasks) =>
        /\ ReadSlots = Tasks
        /\ \A i \in Tasks : tpc[i] = "done" /\ tres[i] = "value"

\* when_any reads the slot of the winner, or of the first failure when no
\* task succeeded
WhenAnyReadsRecorded ==
    (comb = "any" /\ ntasks > 0) =>
        ReadSlots = {IF first_completed < ntasks THEN first_completed ELSE first_failed}

====
